---- MODULE Spec2Model ----
(***************************************************************************)
(* Row generation engine of tpcdsgen: per-column random number streams,    *)
(* the row generators (store/catalog/web sales with their inline returns   *)
(* generators, inventory, item, store, dbgen_version) and the driver loops *)
(* of main.rs that call them.                                              *)
(***************************************************************************)
EXTENDS Integers, Sequences, FiniteSets, TLC

\* ------------------------------------------------------------------------
\* Bounds of the model
\* ------------------------------------------------------------------------
\* initial seeds are InitialSeed(base, column) for a seed base in 0..MaxSeedBase
MaxSeedBase == 2
\* the driver loops are followed for the rows / orders 1..MaxOrders
MaxOrders == 3
\* wall clock readings taken by dbgen_version are 0..MaxClock
MaxClock == 1
\* row counts of the session's scaling for the dimensions joined to
ItemRows == 36
CustomerRows == 5
\* row count of catalog_sales in the session's scaling (date cursor)
CatalogSalesRows == 10
\* functions of the scaling are applied to row counts 0..MaxRowCount, to
\* 1..MaxWarehouses warehouses and to date ranges of 0..MaxDays days
MaxRowCount == 40
MaxWarehouses == 2
MaxDays == 15
\* write_to is given 1..MaxValues values of up to MaxLen chars, write_str
\* strings of up to MaxStringLen chars
MaxValues == 2
MaxLen == 1
MaxStringLen == 3
\* streams given to a function on its own have drawn 0..UsedSeedsPerRow
\* values of a row budget of UsedSeedsPerRow
UsedSeedsPerRow == 2
\* streams of a generator are looked up MaxLookups times
MaxLookups == 2
\* a weighted choice has 1..MaxWeights weights of 0..MaxWeight
MaxWeights == 3
MaxWeight == 2

\* ------------------------------------------------------------------------
\* Random number stream (random/stream.rs): state (seed, seeds_used,
\* seeds_per_row); steps counts the steps taken since construction.
\* ------------------------------------------------------------------------
Modulus == 46337
Multiplier == 75
Increment == 74
Mix == 7919
MaxI32 == 2147483647

\* one step of the generator; Increment = Multiplier - 1, so that a step is
\* seed + 1 -> Multiplier * (seed + 1)
NextSeed(seed) == (seed * Multiplier + Increment) % Modulus

\* Multiplier ^ n modulo Modulus by repeated squaring
RECURSIVE PowMod(_)
PowMod(n) ==
    IF n = 0 THEN 1
    ELSE LET h == PowMod(n \div 2)
             sq == (h * h) % Modulus
         IN  IF n % 2 = 1 THEN (sq * Multiplier) % Modulus ELSE sq

\* the seed after n steps, by the closed-form jump
SeedAfter(seed, n) ==
    IF n <= 0 THEN seed
    ELSE ((((seed + 1) % Modulus) * PowMod(n)) + Modulus - 1) % Modulus

InitialSeed(base, global_column_number) ==
    (base + Mix * global_column_number) % (Modulus - 1)

new_with_column(base, global_column_number, seeds_per_row) ==
    [seed |-> InitialSeed(base, global_column_number),
     seeds_used |-> 0,
     seeds_per_row |-> seeds_per_row,
     steps |-> 0]

\* next_random: one step, seeds_used + 1; the value returned is the new seed
next_random(st) ==
    [st EXCEPT !.seed = NextSeed(@), !.seeds_used = @ + 1, !.steps = @ + 1]

\* n consecutive next_random calls
Advance(st, n) ==
    [st EXCEPT !.seed = SeedAfter(@, n), !.seeds_used = @ + n, !.steps = @ + n]

reset_seeds_used(st) == [st EXCEPT !.seeds_used = 0]

\* skip_rows(n): advance as if n full rows had been consumed
skip_rows(st, n) ==
    [st EXCEPT !.seed = SeedAfter(@, n * st.seeds_per_row),
               !.seeds_used = 0,
               !.steps = @ + n * st.seeds_per_row]

\* ------------------------------------------------------------------------
\* RandomValueGenerator (random/generator.rs)
\* ------------------------------------------------------------------------
\* `as i32` of a 64-bit value holding the stream output
AsI32(v) == IF v <= MaxI32 THEN v ELSE ((v - MaxI32) - 1) - MaxI32 - 1

\* `as i32` of the low 32 bits of the stream's output, given as its two
\* 16-bit halves
halves_as_i32(word) ==
    IF word.high < 32768
    THEN word.high * 65536 + word.low
    ELSE (word.high - 65536) * 65536 + word.low

\* variant: `%` as the remainder that is never negative
RemEuclid(a, b) == a % b

\* Rust `%` on signed integers truncates toward zero (for a < 0 the
\* remainder of -a, negated; computed from -(a + 1), which is an i32 for
\* every i32 a)
Rem(a, b) == IF a >= 0 THEN a % b ELSE 0 - ((((0 - (a + 1)) % b) + 1) % b)

\* Every operation that draws from a stream yields [value, stream]: the
\* value computed and the stream after the draws.
\* generate_uniform_random_int after its call of next_random: result is the
\* value returned, as i32, and st the stream after the call
uniform_random_int(min, max, st, result) ==
    [value |-> Rem(result, max - min + 1) + min, stream |-> st]

generate_uniform_random_int(min, max, stream) ==
    LET st == next_random(stream)
    IN  uniform_random_int(min, max, st, AsI32(st.seed))

\* generate_uniform_random_key: the same with i64 bounds truncated to i32
generate_uniform_random_key(min, max, stream) ==
    LET st == next_random(stream)
    IN  [value |-> Rem(AsI32(st.seed), AsI32(max - min + 1)) + AsI32(min),
         stream |-> st]

\* generate_uniform_random_decimal on the unscaled numbers of min and max
generate_uniform_random_decimal(min, max, stream) ==
    LET st == next_random(stream)
    IN  [value |-> (st.seed % (max - min + 1)) + min, stream |-> st]

\* ------------------------------------------------------------------------
\* Tables and generator columns (generator/*_generator_column.rs, table.rs)
\* ------------------------------------------------------------------------
SalesTables == {"store_sales", "catalog_sales", "web_sales"}
ScdTables == {"item", "store"}
Tables == SalesTables \cup ScdTables \cup {"inventory", "dbgen_version"}

\* the returns table whose generator a sales generator embeds
ChildTable(table) ==
    CASE table = "store_sales" -> "store_returns"
      [] table = "catalog_sales" -> "catalog_returns"
      [] table = "web_sales" -> "web_returns"

\* the generator columns of each table whose streams the row code draws from
Columns(table) ==
    CASE table = "store_sales" ->
           {"SsSoldDateSk", "SsSoldItemSk", "SsSoldCustomerSk",
            "SsTicketNumber", "SrIsReturned", "SsPricing", "SsNulls", "SsPermutation"}
      [] table = "store_returns" ->
           {"SrReturnedTimeSk", "SrCustomerSk", "SrTicketNumber", "SrPricing", "SrNulls"}
      [] table = "catalog_sales" ->
           {"CsShipDateSk", "CsBillCustomerSk", "CsShipCustomerSk", "CsSoldItemSk",
            "CsOrderNumber", "CsPricing", "CsPermute", "CsNulls", "CrIsReturned"}
      [] table = "catalog_returns" ->
           {"CrReturningCustomerSk", "CrNulls", "CrPricing"}
      [] table = "web_sales" ->
           {"WsSoldDateSk", "WsShipDateSk", "WsItemSk", "WsBillCustomerSk",
            "WsShipCustomerSk",
            "WsOrderNumber", "WsPricing", "WsNulls", "WrIsReturned", "WsPermutation"}
      [] table = "web_returns" ->
           {"WrRefundedCustomerSk", "WrReturningCustomerSk", "WrPricing", "WrNulls"}
      [] table = "inventory" -> {"InvQuantityOnHand", "InvNulls"}
      [] table = "item" -> {"IWholesaleCost", "INulls", "IScd"}
      [] table = "store" -> {"WStoreClosedDateId", "WStoreEmployees", "WStoreNulls", "WStoreScd"}
      [] table = "dbgen_version" ->
           {"DvVersion", "DvCreateDate", "DvCreateTime", "DvCmdlineArgs"}

get_global_column_number(col) ==
    CASE col = "SsSoldDateSk" -> 314 [] col = "SsSoldItemSk" -> 316
      [] col = "SsSoldTimeSk" -> 315 [] col = "SsSoldCdemoSk" -> 318
      [] col = "SsSoldHdemoSk" -> 319 [] col = "SsSoldAddrSk" -> 320
      [] col = "SsSoldStoreSk" -> 321 [] col = "SsSoldPromoSk" -> 322
      [] col = "SsPricingQuantity" -> 324 [] col = "SsPricingWholesaleCost" -> 325
      [] col = "SsPricingListPrice" -> 326 [] col = "SsPricingSalesPrice" -> 327
      [] col = "SsPricingCouponAmt" -> 328 [] col = "SsPricingExtSalesPrice" -> 329
      [] col = "SsPricingExtWholesaleCost" -> 330 [] col = "SsPricingExtListPrice" -> 331
      [] col = "SsPricingExtTax" -> 332 [] col = "SsPricingNetPaid" -> 333
      [] col = "SsPricingNetPaidIncTax" -> 334 [] col = "SsPricingNetProfit" -> 335
      [] col = "InvDateSk" -> 198 [] col = "InvItemSk" -> 199
      [] col = "InvWarehouseSk" -> 200
      [] col = "SsSoldCustomerSk" -> 317
      [] col = "SsTicketNumber" -> 323 [] col = "SrIsReturned" -> 336
      [] col = "SsPricing" -> 337 [] col = "SsNulls" -> 338
      [] col = "SsPermutation" -> 339
      [] col = "SrReturnedTimeSk" -> 293 [] col = "SrCustomerSk" -> 295
      [] col = "SrTicketNumber" -> 301 [] col = "SrPricing" -> 312
      [] col = "SrNulls" -> 313
      [] col = "CsShipDateSk" -> 77 [] col = "CsBillCustomerSk" -> 78
      [] col = "CsShipCustomerSk" -> 82
      [] col = "CsSoldItemSk" -> 90
      [] col = "CsOrderNumber" -> 92 [] col = "CsPricing" -> 109
      [] col = "CsPermute" -> 110 [] col = "CsNulls" -> 111
      [] col = "CrIsReturned" -> 112
      [] col = "CrReturningCustomerSk" -> 53 [] col = "CrNulls" -> 73
      [] col = "CrPricing" -> 74
      [] col = "WsSoldDateSk" -> 409 [] col = "WsShipDateSk" -> 411
      [] col = "WsItemSk" -> 412 [] col = "WsBillCustomerSk" -> 413
      [] col = "WsShipCustomerSk" -> 417
      [] col = "WsOrderNumber" -> 426
      [] col = "WsPricing" -> 443 [] col = "WsNulls" -> 444
      [] col = "WrIsReturned" -> 445 [] col = "WsPermutation" -> 446
      [] col = "WrRefundedCustomerSk" -> 386 [] col = "WrReturningCustomerSk" -> 390
      [] col = "WrPricing" -> 407 [] col = "WrNulls" -> 408
      [] col = "InvQuantityOnHand" -> 201 [] col = "InvNulls" -> 202
      [] col = "IWholesaleCost" -> 209 [] col = "INulls" -> 225 [] col = "IScd" -> 226
      [] col = "WStoreClosedDateId" -> 263 [] col = "WStoreEmployees" -> 265
      [] col = "WStoreNulls" -> 288 [] col = "WStoreScd" -> 290
      [] col = "DvVersion" -> 476 [] col = "DvCreateDate" -> 477
      [] col = "DvCreateTime" -> 478 [] col = "DvCmdlineArgs" -> 479

get_seeds_per_row(col) ==
    CASE col = "SsSoldDateSk" -> 2 [] col = "SsSoldItemSk" -> 1
      [] col = "SsSoldTimeSk" -> 2 [] col = "SsSoldCdemoSk" -> 1
      [] col = "SsSoldHdemoSk" -> 1 [] col = "SsSoldAddrSk" -> 1
      [] col = "SsSoldStoreSk" -> 1 [] col = "SsSoldPromoSk" -> 16
      [] col = "SsPricingQuantity" -> 1 [] col = "SsPricingWholesaleCost" -> 0
      [] col = "SsPricingListPrice" -> 0 [] col = "SsPricingSalesPrice" -> 0
      [] col = "SsPricingCouponAmt" -> 0 [] col = "SsPricingExtSalesPrice" -> 0
      [] col = "SsPricingExtWholesaleCost" -> 0 [] col = "SsPricingExtListPrice" -> 0
      [] col = "SsPricingExtTax" -> 0 [] col = "SsPricingNetPaid" -> 0
      [] col = "SsPricingNetPaidIncTax" -> 0 [] col = "SsPricingNetProfit" -> 0
      [] col = "InvDateSk" -> 1 [] col = "InvItemSk" -> 1
      [] col = "InvWarehouseSk" -> 1
      [] col = "SsSoldCustomerSk" -> 1
      [] col = "SsTicketNumber" -> 1 [] col = "SrIsReturned" -> 16
      [] col = "SsPricing" -> 128 [] col = "SsNulls" -> 32
      [] col = "SsPermutation" -> 0
      [] col = "SrReturnedTimeSk" -> 32 [] col = "SrCustomerSk" -> 16
      [] col = "SrTicketNumber" -> 16 [] col = "SrPricing" -> 80
      [] col = "SrNulls" -> 32
      [] col = "CsShipDateSk" -> 14 [] col = "CsBillCustomerSk" -> 1
      [] col = "CsShipCustomerSk" -> 2
      [] col = "CsSoldItemSk" -> 1
      [] col = "CsOrderNumber" -> 1 [] col = "CsPricing" -> 112
      [] col = "CsPermute" -> 0 [] col = "CsNulls" -> 28
      [] col = "CrIsReturned" -> 14
      [] col = "CrReturningCustomerSk" -> 28 [] col = "CrNulls" -> 28
      [] col = "CrPricing" -> 70
      [] col = "WsSoldDateSk" -> 2 [] col = "WsShipDateSk" -> 16
      [] col = "WsItemSk" -> 1 [] col = "WsBillCustomerSk" -> 1
      [] col = "WsShipCustomerSk" -> 2
      [] col = "WsOrderNumber" -> 1
      [] col = "WsPricing" -> 128 [] col = "WsNulls" -> 32
      [] col = "WrIsReturned" -> 16 [] col = "WsPermutation" -> 0
      [] col = "WrRefundedCustomerSk" -> 16 [] col = "WrReturningCustomerSk" -> 16
      [] col = "WrPricing" -> 80 [] col = "WrNulls" -> 32
      [] col = "InvQuantityOnHand" -> 1 [] col = "InvNulls" -> 2
      [] col = "IWholesaleCost" -> 1 [] col = "INulls" -> 2 [] col = "IScd" -> 1
      [] col = "WStoreClosedDateId" -> 2 [] col = "WStoreEmployees" -> 1
      [] col = "WStoreNulls" -> 2 [] col = "WStoreScd" -> 1
      [] col = "DvVersion" -> 1 [] col = "DvCreateDate" -> 1
      [] col = "DvCreateTime" -> 1 [] col = "DvCmdlineArgs" -> 1

\* all generator columns of a table in the order of all_variants() /
\* values(), for the tables whose column lists are modelled in full
all_variants(table) ==
    CASE table = "store_sales" ->
           <<"SsSoldDateSk", "SsSoldTimeSk", "SsSoldItemSk", "SsSoldCustomerSk",
             "SsSoldCdemoSk", "SsSoldHdemoSk", "SsSoldAddrSk", "SsSoldStoreSk",
             "SsSoldPromoSk", "SsTicketNumber", "SsPricingQuantity",
             "SsPricingWholesaleCost", "SsPricingListPrice", "SsPricingSalesPrice",
             "SsPricingCouponAmt", "SsPricingExtSalesPrice", "SsPricingExtWholesaleCost",
             "SsPricingExtListPrice", "SsPricingExtTax", "SsPricingNetPaid",
             "SsPricingNetPaidIncTax", "SsPricingNetProfit", "SrIsReturned",
             "SsPricing", "SsNulls", "SsPermutation">>
      [] table = "inventory" ->
           <<"InvDateSk", "InvItemSk", "InvWarehouseSk", "InvQuantityOnHand", "InvNulls">>
      [] table = "dbgen_version" ->
           <<"DvVersion", "DvCreateDate", "DvCreateTime", "DvCmdlineArgs">>

get_null_basis_points(table) ==
    CASE table = "catalog_returns" -> 400 [] table = "catalog_sales" -> 100
      [] table = "item" -> 50 [] table = "store" -> 100
      [] table = "store_returns" -> 700 [] table = "store_sales" -> 900
      [] table = "web_returns" -> 900 [] table = "web_sales" -> 5
      [] table = "inventory" -> 1000 [] table = "dbgen_version" -> 0

\* the not-null bitmaps, as the sets of their one bits
get_not_null_bit_map(table) ==
    CASE table = "catalog_returns" -> {0, 1, 2, 16} [] table = "catalog_sales" -> {15, 17}
      [] table = "item" -> {0, 1, 3} [] table = "store" -> {0, 1, 3}
      [] table = "store_returns" -> {2, 9} [] table = "store_sales" -> {2, 9}
      [] table = "web_returns" -> {2, 13} [] table = "web_sales" -> {3, 17}
      [] table = "inventory" -> {0, 1, 2} [] table = "dbgen_version" -> {}

\* ------------------------------------------------------------------------
\* Scaling of the session (config/scaling.rs)
\* ------------------------------------------------------------------------
\* variant: the id count of a table that keeps no history
get_id_count_without_history(row_count) == row_count

\* get_id_count of a table that keeps history, from its row count
get_id_count(row_count) ==
    LET unique_count == (row_count \div 6) * 3
        r == row_count % 6
    IN  CASE r = 1 -> unique_count + 1
          [] r \in {2, 3} -> unique_count + 2
          [] r \in {4, 5} -> unique_count + 3
          [] OTHER -> unique_count

item_count == get_id_count(ItemRows)

\* variant: the weeks of n_days + 6 days
n_weeks_short(n_days) == (n_days + 6) \div 7

\* let n_weeks = (n_days + 7) / 7
n_weeks_of(n_days) == (n_days + 7) \div 7

\* Scaling::scale_inventory for a scaling with the given row counts of item
\* and warehouse and the given date range
scale_inventory(item_rows, warehouse_rows, date_minimum, date_maximum) ==
    LET n_days == date_maximum - date_minimum
        n_weeks == n_weeks_of(n_days)
    IN  get_id_count(item_rows) * warehouse_rows * n_weeks

\* main.rs generate_inventory: num_rows of for row_number in 1..=num_rows
generate_inventory_num_rows(item_rows, warehouse_rows, date_minimum, date_maximum) ==
    LET item_id_count == get_id_count(item_rows)
        warehouse_count == warehouse_rows
        n_days == date_maximum - date_minimum
        n_weeks == n_weeks_of(n_days)
    IN  item_id_count * warehouse_count * n_weeks

\* dates (types/date.rs)
JULIAN_DATA_START_DATE == 2450815
JULIAN_DATE_MINIMUM == 2450815
JULIAN_DATE_MAXIMUM == 2452640

\* calendar distribution: weight of a day and the largest weight
get_max_weight == 2
get_weight_for_day_number(julian_date) ==
    CASE (julian_date - JULIAN_DATA_START_DATE) % 3 = 0 -> 1
      [] (julian_date - JULIAN_DATA_START_DATE) % 3 = 1 -> 2
      [] OTHER -> 0

get_row_count_for_date(julian_date) ==
    LET calendar_total == get_max_weight * 5
    IN  (CatalogSalesRows * get_weight_for_day_number(julian_date)
           + calendar_total \div 2) \div calendar_total

\* ------------------------------------------------------------------------
\* Utilities: null bitmap, permutations, join keys, SCD
\* ------------------------------------------------------------------------
Bits(n) == {b \in 0..17 : (n \div (2 ^ b)) % 2 = 1}

\* one draw decides whether the row has nulls at all; only then a second
\* draw gives the bits, with the table's not-null bits masked out
create_null_bit_map(table, stream) ==
    LET threshold == generate_uniform_random_int(0, 9999, stream)
        bit_map == generate_uniform_random_key(1, MaxI32, threshold.stream)
    IN  IF threshold.value < get_null_basis_points(table)
        THEN [value |-> Bits(bit_map.value) \ get_not_null_bit_map(table),
              stream |-> bit_map.stream]
        ELSE [value |-> {}, stream |-> threshold.stream]

Swap(p, i, j) == [p EXCEPT ![i] = p[j], ![j] = p[i]]

RECURSIVE Shuffle(_, _, _)
Shuffle(p, i, stream) ==
    IF i > Len(p)
    THEN [value |-> p, stream |-> stream]
    ELSE LET index == generate_uniform_random_int(1, Len(p), stream)
         IN  Shuffle(Swap(p, i, index.value), i + 1, index.stream)

\* Fisher-Yates shuffle of [1..n], one draw per position
make_permutation(n, stream) == Shuffle([i \in 1..n |-> i], 1, stream)

\* 1-based with wrap
get_permutation_entry(p, i) == p[((i - 1) % Len(p)) + 1]

\* join key into a dimension of id_count rows: one uniform key draw
generate_join_key(id_count, stream) == generate_uniform_random_key(1, id_count, stream)

\* join key into date_dim: a day of the data range
generate_date_join_key(stream) ==
    LET day == generate_uniform_random_key(JULIAN_DATE_MINIMUM, JULIAN_DATE_MAXIMUM, stream)
    IN  day

\* the surrogate key of the SCD row of business key index unique_id that is
\* active on julian_date: three rows per two keys, windows by thirds
match_surrogate_key(unique_id, julian_date, row_count) ==
    LET span == JULIAN_DATE_MAXIMUM - JULIAN_DATE_MINIMUM
        one_half == JULIAN_DATE_MINIMUM + span \div 2
        one_third == JULIAN_DATE_MINIMUM + span \div 3
        two_thirds == JULIAN_DATE_MINIMUM + (2 * span) \div 3
        base_key == (unique_id \div 3) * 6
        key == CASE unique_id % 3 = 1 -> base_key + 1
                 [] unique_id % 3 = 2 ->
                      base_key + 2 + (IF julian_date > one_half THEN 1 ELSE 0)
                 [] OTHER ->
                      base_key - 2 + (IF julian_date > one_third THEN 1 ELSE 0)
                                   + (IF julian_date > two_thirds THEN 1 ELSE 0)
    IN  IF key > row_count THEN row_count ELSE key

\* compute_scd_key(...).is_new_business_key
is_new_business_key(row_number) == (row_number - 1) % 3 = 0

get_value_for_slowly_changing_dimension(field_change_flags, is_new_key, previous, current) ==
    IF is_new_key \/ field_change_flags % 2 = 1 THEN current ELSE previous

\* ------------------------------------------------------------------------
\* Decimal (types/decimal.rs): a number of 10^-precision units
\* ------------------------------------------------------------------------
Pow10(k) == 10 ^ k

\* integer division that truncates toward zero
Quot(a, b) == IF a >= 0 THEN a \div b ELSE 0 - ((0 - a) \div b)

decimal_new(number, precision) == [number |-> number, precision |-> precision]

from_integer(n) == decimal_new(n, 0)

DECIMAL_ZERO == decimal_new(0, 2)
DECIMAL_ONE_HALF == decimal_new(50, 2)
DECIMAL_NINE_PERCENT == decimal_new(9, 2)
DECIMAL_ONE == decimal_new(100, 2)
DECIMAL_ONE_HUNDRED == decimal_new(10000, 2)

\* the number of d at the precision p >= d.precision
scaled(d, p) == d.number * Pow10(p - d.precision)

decimal_add2(a, b) ==
    LET p == IF a.precision > b.precision THEN a.precision ELSE b.precision
    IN  decimal_new(scaled(a, p) + scaled(b, p), p)

decimal_subtract(a, b) ==
    LET p == IF a.precision > b.precision THEN a.precision ELSE b.precision
    IN  decimal_new(scaled(a, p) - scaled(b, p), p)

decimal_negate(a) == decimal_new(0 - a.number, a.precision)

\* the product at the larger precision, digits beyond it cut off
decimal_multiply(a, b) ==
    LET p == IF a.precision > b.precision THEN a.precision ELSE b.precision
    IN  decimal_new(Quot(a.number * b.number, Pow10(a.precision + b.precision - p)), p)

\* the quotient at the larger precision, digits beyond it cut off
decimal_divide(a, b) ==
    LET p == IF a.precision > b.precision THEN a.precision ELSE b.precision
    IN  decimal_new(Quot(scaled(a, p) * Pow10(p), scaled(b, p)), p)

\* generate_uniform_random_decimal on Decimals of precision 2
uniform_decimal(min, max, stream) ==
    LET d == generate_uniform_random_decimal(min.number, max.number, stream)
    IN  [value |-> decimal_new(d.value, 2), stream |-> d.stream]

\* ------------------------------------------------------------------------
\* Pricing (types/pricing.rs): of the 23 fields the quantity, the prices
\* and what the returned amounts are computed from
\* ------------------------------------------------------------------------
QUANTITY_MIN == 1
max_quantity_sold == 100

\* PricingLimits of the sales tables: max markup, max discount, max
\* wholesale cost (max quantity sold is max_quantity_sold for all three)
get_store_sales_pricing_limits ==
    [max_markup |-> DECIMAL_ONE, max_discount |-> DECIMAL_ONE,
     max_wholesale_cost |-> DECIMAL_ONE_HUNDRED]

get_web_sales_pricing_limits ==
    [max_markup |-> decimal_new(200, 2), max_discount |-> DECIMAL_ONE,
     max_wholesale_cost |-> DECIMAL_ONE_HUNDRED]

get_catalog_sales_pricing_limits ==
    [max_markup |-> decimal_new(200, 2), max_discount |-> DECIMAL_ONE,
     max_wholesale_cost |-> DECIMAL_ONE_HUNDRED]

markup_min == decimal_new(0, 2)
discount_min == decimal_new(0, 2)

\* the amounts of a sale computed from the values drawn
sales_pricing_of(quantity, wholesale_cost, markup, discount, coupon, coupon_usage) ==
    LET decimal_quantity == from_integer(quantity)
        list_price == decimal_multiply(wholesale_cost, decimal_add2(markup, DECIMAL_ONE))
        sales_price == decimal_multiply(list_price,
                           decimal_add2(decimal_negate(discount), DECIMAL_ONE))
        ext_sales_price == decimal_multiply(sales_price, decimal_quantity)
        coupon_amount == IF coupon_usage <= 20
                         THEN decimal_multiply(ext_sales_price, coupon)
                         ELSE DECIMAL_ZERO
    IN  [quantity |-> quantity,
         wholesale_cost |-> wholesale_cost,
         list_price |-> list_price,
         sales_price |-> sales_price,
         ext_sales_price |-> ext_sales_price,
         coupon_amount |-> coupon_amount,
         net_paid |-> decimal_subtract(ext_sales_price, coupon_amount),
         refunded_cash |-> DECIMAL_ZERO,
         reversed_charge |-> DECIMAL_ZERO,
         store_credit |-> DECIMAL_ZERO,
         fee |-> DECIMAL_ZERO]

\* quantity, wholesale cost, markup, discount, coupon, coupon usage,
\* shipping, tax: eight draws from the pricing stream, one step each, the
\* k-th draw being taken from the stream k - 1 steps on (shipping and tax,
\* the last two, go into amounts that are left out here)
generate_pricing_for_sales_table(limits, stream) ==
    [value |-> sales_pricing_of(
                   generate_uniform_random_int(QUANTITY_MIN, max_quantity_sold, stream).value,
                   uniform_decimal(decimal_new(100, 2), limits.max_wholesale_cost,
                                   Advance(stream, 1)).value,
                   uniform_decimal(markup_min, limits.max_markup, Advance(stream, 2)).value,
                   uniform_decimal(discount_min, limits.max_discount,
                                   Advance(stream, 3)).value,
                   uniform_decimal(DECIMAL_ZERO, DECIMAL_ONE, Advance(stream, 4)).value,
                   generate_uniform_random_int(1, 100, Advance(stream, 5)).value),
     stream |-> uniform_decimal(DECIMAL_ZERO, DECIMAL_NINE_PERCENT, Advance(stream, 7)).stream]

\* variant: the store credit is what is left of net_paid after the cash only
store_credit_without_charge(net_paid, reversed_charge, refunded_cash) ==
    decimal_subtract(net_paid, refunded_cash)

\* the rest is store credit
store_credit_of(net_paid, reversed_charge, refunded_cash) ==
    decimal_subtract(decimal_subtract(net_paid, reversed_charge), refunded_cash)

\* the amounts of a return computed from the values drawn
returns_pricing_of(base_pricing, quantity, cash_percentage, credit_percent, fee) ==
    LET decimal_quantity == from_integer(quantity)
        ext_sales_price == decimal_multiply(base_pricing.sales_price, decimal_quantity)
        net_paid == ext_sales_price
        refunded_cash ==
            decimal_multiply(decimal_divide(from_integer(cash_percentage),
                                            DECIMAL_ONE_HUNDRED), net_paid)
        paid_minus_refunded == decimal_subtract(net_paid, refunded_cash)
        reversed_charge ==
            decimal_multiply(decimal_divide(from_integer(credit_percent),
                                            DECIMAL_ONE_HUNDRED), paid_minus_refunded)
    IN  [quantity |-> quantity,
         wholesale_cost |-> base_pricing.wholesale_cost,
         list_price |-> base_pricing.list_price,
         sales_price |-> base_pricing.sales_price,
         ext_sales_price |-> ext_sales_price,
         coupon_amount |-> base_pricing.coupon_amount,
         net_paid |-> net_paid,
         refunded_cash |-> refunded_cash,
         reversed_charge |-> reversed_charge,
         store_credit |-> store_credit_of(net_paid, reversed_charge, refunded_cash),
         fee |-> fee]

\* shipping cost, cash percentage, credit percentage, fee: four draws, one
\* step each, the k-th draw being taken from the stream k - 1 steps on
generate_pricing_for_returns_table(stream, quantity, base_pricing) ==
    [value |-> returns_pricing_of(
                   base_pricing, quantity,
                   generate_uniform_random_int(0, 100, Advance(stream, 1)).value,
                   generate_uniform_random_int(1, 100, Advance(stream, 2)).value,
                   uniform_decimal(DECIMAL_ONE_HALF, DECIMAL_ONE_HUNDRED,
                                   Advance(stream, 3)).value),
     stream |-> uniform_decimal(DECIMAL_ONE_HALF, DECIMAL_ONE_HUNDRED,
                                Advance(stream, 3)).stream]

\* ------------------------------------------------------------------------
\* Returns generators, called by the sales generators with the sales row
\* ------------------------------------------------------------------------
SR_SAME_CUSTOMER == 80
SR_RETURN_PCT == 10
RETURN_PERCENT == 10
CR_GIFT_PERCENTAGE == 10
CS_GIFT_PERCENTAGE == 10
WS_GIFT_PERCENTAGE == 7
RETURN_PERCENTAGE == 10

\* variant: the return carries another item key than the sales row
sr_keys_mixed(sales_row) ==
    [order_number |-> sales_row.order_number, item_sk |-> 0 - sales_row.item_sk]

\* the keys a store_returns row takes from the sales row
sr_keys(sales_row) ==
    [order_number |-> sales_row.order_number, item_sk |-> sales_row.item_sk]

store_returns_generate_row(cs, sales_row) ==
    LET null_bit_map == create_null_bit_map("store_returns", cs["SrNulls"])
        keys == sr_keys(sales_row)
        customer == generate_join_key(CustomerRows, cs["SrCustomerSk"])
        random_int == generate_uniform_random_int(1, 100, cs["SrTicketNumber"])
        returned_time == generate_uniform_random_int(8 * 3600 - 1, 17 * 3600 - 1,
                                                     cs["SrReturnedTimeSk"])
        quantity == generate_uniform_random_int(1, sales_row.quantity, cs["SrPricing"])
        sr_pricing == generate_pricing_for_returns_table(quantity.stream, quantity.value,
                                                        sales_row.pricing)
    IN  [value |-> [table |-> "store_returns",
                    null_bit_map |-> null_bit_map.value,
                    item_sk |-> keys.item_sk,
                    order_number |-> keys.order_number,
                    customer_sk |-> IF random_int.value < SR_SAME_CUSTOMER
                                    THEN sales_row.customer_sk ELSE customer.value,
                    returned_time_sk |-> returned_time.value,
                    quantity |-> sr_pricing.value.quantity,
                    pricing |-> sr_pricing.value],
         streams |-> [cs EXCEPT !["SrNulls"] = null_bit_map.stream,
                                !["SrCustomerSk"] = customer.stream,
                                !["SrTicketNumber"] = random_int.stream,
                                !["SrReturnedTimeSk"] = returned_time.stream,
                                !["SrPricing"] = sr_pricing.stream]]

\* the keys a catalog_returns row takes from the sales row
cr_keys(sales_row) ==
    [item_sk |-> sales_row.item_sk, order_number |-> sales_row.order_number]

catalog_returns_generate_row(cs, sales_row) ==
    LET null_bit_map == create_null_bit_map("catalog_returns", cs["CrNulls"])
        keys == cr_keys(sales_row)
        customer == generate_join_key(CustomerRows, cs["CrReturningCustomerSk"])
        random_int == generate_uniform_random_int(0, 99, customer.stream)
        quantity == IF sales_row.quantity = -1
                    THEN [value |-> sales_row.quantity, stream |-> cs["CrPricing"]]
                    ELSE generate_uniform_random_int(1, sales_row.quantity, cs["CrPricing"])
        cr_pricing == generate_pricing_for_returns_table(quantity.stream, quantity.value,
                                                        sales_row.pricing)
    IN  [value |-> [table |-> "catalog_returns",
                    null_bit_map |-> null_bit_map.value,
                    item_sk |-> keys.item_sk,
                    order_number |-> keys.order_number,
                    customer_sk |-> sales_row.customer_sk,
                    returning_customer_sk |->
                        IF random_int.value < CR_GIFT_PERCENTAGE
                        THEN sales_row.ship_customer_sk ELSE customer.value,
                    quantity |-> cr_pricing.value.quantity,
                    pricing |-> cr_pricing.value],
         streams |-> [cs EXCEPT !["CrNulls"] = null_bit_map.stream,
                                !["CrReturningCustomerSk"] = random_int.stream,
                                !["CrPricing"] = cr_pricing.stream]]

\* the keys a web_returns row takes from the sales row
wr_keys(sales_row) ==
    [item_sk |-> sales_row.item_sk, order_number |-> sales_row.order_number]

web_returns_generate_row(cs, sales_row) ==
    LET null_bit_map == create_null_bit_map("web_returns", cs["WrNulls"])
        keys == wr_keys(sales_row)
        customer == generate_join_key(CustomerRows, cs["WrRefundedCustomerSk"])
        random_int == generate_uniform_random_int(0, 99, cs["WrReturningCustomerSk"])
        quantity == generate_uniform_random_int(1, sales_row.quantity, cs["WrPricing"])
        wr_pricing == generate_pricing_for_returns_table(quantity.stream, quantity.value,
                                                        sales_row.pricing)
    IN  [value |-> [table |-> "web_returns",
                    null_bit_map |-> null_bit_map.value,
                    item_sk |-> keys.item_sk,
                    order_number |-> keys.order_number,
                    customer_sk |-> IF random_int.value < WS_GIFT_PERCENTAGE
                                    THEN sales_row.ship_customer_sk ELSE customer.value,
                    quantity |-> wr_pricing.value.quantity,
                    pricing |-> wr_pricing.value],
         streams |-> [cs EXCEPT !["WrNulls"] = null_bit_map.stream,
                                !["WrRefundedCustomerSk"] = customer.stream,
                                !["WrReturningCustomerSk"] = random_int.stream,
                                !["WrPricing"] = wr_pricing.stream]]

\* variant: the trait method of a returns generator answers with a row of
\* its table
returns_generate_row_alone(t, cs, row_number) ==
    [panicked |-> FALSE,
     rows |-> <<[table |-> t, null_bit_map |-> {}, item_sk |-> 1,
                 order_number |-> row_number, customer_sk |-> 1, quantity |-> 1]>>,
     streams |-> cs]

\* RowGenerator::generate_row_and_child_rows of StoreReturnsRowGenerator and
\* of CatalogReturnsRowGenerator: panic!, no result.  WebReturnsRowGenerator
\* does not implement RowGenerator and has no such method.
returns_generate_row_and_child_rows(t, cs, row_number) ==
    [panicked |-> TRUE, rows |-> <<>>, streams |-> cs]

\* ------------------------------------------------------------------------
\* Sales generators (row/{store,catalog,web}_sales_row_generator.rs).  A
\* generator g has the fields streams, child_streams (the streams of the
\* embedded returns generator), item_permutation (<<>> is None),
\* julian_date, next_date_index, remaining_line_items, order_info,
\* item_index (ticket_item_base in catalog_sales) and previous_row (<<>> is
\* None).  generate_row_and_child_rows yields the generator after the call
\* and the RowGeneratorResult (rows, should_end_row).
\* ------------------------------------------------------------------------
\* variant: the order ends one line item early
is_last_row_one_early(remaining_line_items) == remaining_line_items <= 1

is_last_row_in_order(remaining_line_items) == remaining_line_items = 0

\* choice of the permutation on the first call
item_permutation_of(g, col) ==
    IF g.item_permutation = <<>>
    THEN make_permutation(item_count, g.streams[col])
    ELSE [value |-> g.item_permutation, stream |-> g.streams[col]]

\* variant: the index stays at item_count instead of wrapping to 1
next_item_index_clamped(index) == IF index + 1 > item_count THEN item_count ELSE index + 1

\* self.item_index += 1, and back to 1 past item_count
next_item_index(index) == IF index + 1 > item_count THEN 1 ELSE index + 1

\* variant: the ticket number is not the row number of the call
store_sales_order_info_off_by_one(ss, row_number) ==
    LET ss_sold_date_sk == generate_date_join_key(ss["SsSoldDateSk"])
        ss_sold_customer_sk == generate_join_key(CustomerRows, ss["SsSoldCustomerSk"])
    IN  [value |-> [sold_date_sk |-> ss_sold_date_sk.value,
                    customer_sk |-> ss_sold_customer_sk.value,
                    order_number |-> row_number + 1],
         streams |-> [ss EXCEPT !["SsSoldDateSk"] = ss_sold_date_sk.stream,
                                !["SsSoldCustomerSk"] = ss_sold_customer_sk.stream]]

store_sales_generate_order_info(ss, row_number) ==
    LET ss_sold_date_sk == generate_date_join_key(ss["SsSoldDateSk"])
        ss_sold_customer_sk == generate_join_key(CustomerRows, ss["SsSoldCustomerSk"])
    IN  [value |-> [sold_date_sk |-> ss_sold_date_sk.value,
                    customer_sk |-> ss_sold_customer_sk.value,
                    order_number |-> row_number],
         streams |-> [ss EXCEPT !["SsSoldDateSk"] = ss_sold_date_sk.stream,
                                !["SsSoldCustomerSk"] = ss_sold_customer_sk.stream]]

\* number of line items of a new store_sales order
ss_remaining_line_items(stream) == generate_uniform_random_int(8, 16, stream)

\* whether the line item of roll random_int is returned
ss_is_returned(random_int) == random_int < SR_RETURN_PCT

store_sales_generate_row_and_child_rows(g, row_number) ==
    LET permutation == item_permutation_of(g, "SsPermutation")
        new_order == g.remaining_line_items = 0
        info == store_sales_generate_order_info(g.streams, row_number)
        order_info == IF new_order THEN info.value ELSE g.order_info
        ss == IF new_order THEN info.streams ELSE g.streams
        line_items == ss_remaining_line_items(ss["SsTicketNumber"])
        first_item == generate_uniform_random_int(1, item_count, ss["SsSoldItemSk"])
        null_bit_map == create_null_bit_map("store_sales", ss["SsNulls"])
        item_index == next_item_index(IF new_order THEN first_item.value ELSE g.item_index)
        ss_pricing == generate_pricing_for_sales_table(get_store_sales_pricing_limits,
                                                      ss["SsPricing"])
        sales_row == [table |-> "store_sales",
                      null_bit_map |-> null_bit_map.value,
                      sold_date_sk |-> order_info.sold_date_sk,
                      item_sk |-> match_surrogate_key(
                                      get_permutation_entry(permutation.value, item_index),
                                      order_info.sold_date_sk, ItemRows),
                      customer_sk |-> order_info.customer_sk,
                      order_number |-> order_info.order_number,
                      quantity |-> ss_pricing.value.quantity,
                      pricing |-> ss_pricing.value]
        random_int == generate_uniform_random_int(0, 99, ss["SrIsReturned"])
        return == store_returns_generate_row(g.child_streams, sales_row)
        remaining == (IF new_order THEN line_items.value ELSE g.remaining_line_items) - 1
    IN  [g |-> [g EXCEPT
                  !.streams = [ss EXCEPT
                      !["SsPermutation"] = permutation.stream,
                      !["SsTicketNumber"] = IF new_order THEN line_items.stream ELSE @,
                      !["SsSoldItemSk"] = IF new_order THEN first_item.stream ELSE @,
                      !["SsNulls"] = null_bit_map.stream,
                      !["SsPricing"] = ss_pricing.stream,
                      !["SrIsReturned"] = random_int.stream],
                  !.child_streams = IF ss_is_returned(random_int.value)
                                    THEN return.streams ELSE @,
                  !.item_permutation = permutation.value,
                  !.order_info = order_info,
                  !.item_index = item_index,
                  !.remaining_line_items = remaining],
         rows |-> IF ss_is_returned(random_int.value)
                  THEN <<sales_row, return.value>> ELSE <<sales_row>>,
         should_end_row |-> is_last_row_in_order(remaining)]

\* variant: the cursor moves on when the row number has reached next_date_index
RECURSIVE advance_date_inclusive(_, _, _)
advance_date_inclusive(row_number, julian_date, next_date_index) ==
    IF row_number >= next_date_index
    THEN advance_date_inclusive(row_number, julian_date + 1,
                                next_date_index + get_row_count_for_date(julian_date + 1))
    ELSE [julian_date |-> julian_date, next_date_index |-> next_date_index]

\* the date cursor of catalog_sales: move to a new date while the row
\* number is ahead of next_date_index
RECURSIVE advance_date(_, _, _)
advance_date(row_number, julian_date, next_date_index) ==
    IF row_number > next_date_index
    THEN advance_date(row_number, julian_date + 1,
                      next_date_index + get_row_count_for_date(julian_date + 1))
    ELSE [julian_date |-> julian_date, next_date_index |-> next_date_index]

\* variant: the date cursor starts at the budget of the start date
date_cursor_at_budget ==
    [julian_date |-> JULIAN_DATA_START_DATE,
     next_date_index |-> get_row_count_for_date(JULIAN_DATA_START_DATE)]

\* "Initialize date tracking" on the first call of the generator
initial_date_cursor ==
    [julian_date |-> JULIAN_DATA_START_DATE,
     next_date_index |-> get_row_count_for_date(JULIAN_DATA_START_DATE) + 1]

\* variant: a gift is a roll below GIFT_PERCENTAGE
cs_ship_customer_below(gift_percentage, cs_bill_customer_sk) ==
    IF gift_percentage.value < CS_GIFT_PERCENTAGE
    THEN generate_join_key(CustomerRows, gift_percentage.stream)
    ELSE [value |-> cs_bill_customer_sk, stream |-> gift_percentage.stream]

\* the ship-customer bundle (of which the model keeps cs_ship_customer_sk)
\* after the gift roll: gift_percentage is the roll drawn and the stream
\* CsShipCustomerSk after that draw
cs_ship_customer(gift_percentage, cs_bill_customer_sk) ==
    IF gift_percentage.value <= CS_GIFT_PERCENTAGE
    THEN generate_join_key(CustomerRows, gift_percentage.stream)
    ELSE [value |-> cs_bill_customer_sk, stream |-> gift_percentage.stream]

catalog_sales_generate_order_info(ss, cursor, row_number) ==
    LET cs_bill_customer_sk == generate_join_key(CustomerRows, ss["CsBillCustomerSk"])
        gift_percentage == generate_uniform_random_int(0, 99, ss["CsShipCustomerSk"])
        ship_customer == cs_ship_customer(gift_percentage, cs_bill_customer_sk.value)
    IN  [value |-> [sold_date_sk |-> cursor.julian_date,
                    customer_sk |-> cs_bill_customer_sk.value,
                    ship_customer_sk |-> ship_customer.value,
                    order_number |-> row_number],
         streams |-> [ss EXCEPT
                        !["CsBillCustomerSk"] = cs_bill_customer_sk.stream,
                        !["CsShipCustomerSk"] = ship_customer.stream]]

\* variant: catalog_sales orders of 15 or 16 line items
cs_remaining_line_items_as_store(stream) == generate_uniform_random_int(15, 16, stream)

\* number of line items of a new catalog_sales order
cs_remaining_line_items(stream) == generate_uniform_random_int(4, 14, stream)

cs_is_returned(random_int) == random_int < RETURN_PERCENT

catalog_sales_generate_row_and_child_rows(g, row_number) ==
    LET permutation == item_permutation_of(g, "CsPermute")
        start == IF g.item_permutation = <<>>
                 THEN initial_date_cursor
                 ELSE [julian_date |-> g.julian_date,
                       next_date_index |-> g.next_date_index]
        new_order == g.remaining_line_items = 0
        cursor == IF new_order
                  THEN advance_date(row_number, start.julian_date, start.next_date_index)
                  ELSE start
        info == catalog_sales_generate_order_info(g.streams, cursor, row_number)
        order_info == IF new_order THEN info.value ELSE g.order_info
        ss == IF new_order THEN info.streams ELSE g.streams
        first_item == generate_uniform_random_int(1, item_count, ss["CsSoldItemSk"])
        line_items == cs_remaining_line_items(ss["CsOrderNumber"])
        null_bit_map == create_null_bit_map("catalog_sales", ss["CsNulls"])
        shipping_lag == generate_uniform_random_int(2, 90, ss["CsShipDateSk"])
        ticket_item_base ==
            next_item_index(IF new_order THEN first_item.value ELSE g.item_index)
        cs_pricing == generate_pricing_for_sales_table(get_catalog_sales_pricing_limits,
                                                      ss["CsPricing"])
        sales_row == [table |-> "catalog_sales",
                      null_bit_map |-> null_bit_map.value,
                      sold_date_sk |-> order_info.sold_date_sk,
                      ship_date_sk |-> order_info.sold_date_sk + shipping_lag.value,
                      item_sk |-> match_surrogate_key(
                                      get_permutation_entry(permutation.value,
                                                            ticket_item_base),
                                      order_info.sold_date_sk, ItemRows),
                      customer_sk |-> order_info.customer_sk,
                      ship_customer_sk |-> order_info.ship_customer_sk,
                      order_number |-> order_info.order_number,
                      quantity |-> cs_pricing.value.quantity,
                      pricing |-> cs_pricing.value]
        random_int == generate_uniform_random_int(0, 99, ss["CrIsReturned"])
        return == catalog_returns_generate_row(g.child_streams, sales_row)
        remaining == (IF new_order THEN line_items.value ELSE g.remaining_line_items) - 1
    IN  [g |-> [g EXCEPT
                  !.streams = [ss EXCEPT
                      !["CsPermute"] = permutation.stream,
                      !["CsSoldItemSk"] = IF new_order THEN first_item.stream ELSE @,
                      !["CsOrderNumber"] = IF new_order THEN line_items.stream ELSE @,
                      !["CsNulls"] = null_bit_map.stream,
                      !["CsShipDateSk"] = shipping_lag.stream,
                      !["CsPricing"] = cs_pricing.stream,
                      !["CrIsReturned"] = random_int.stream],
                  !.child_streams = IF cs_is_returned(random_int.value)
                                    THEN return.streams ELSE @,
                  !.item_permutation = permutation.value,
                  !.julian_date = cursor.julian_date,
                  !.next_date_index = cursor.next_date_index,
                  !.order_info = order_info,
                  !.item_index = ticket_item_base,
                  !.remaining_line_items = remaining],
         rows |-> IF cs_is_returned(random_int.value)
                  THEN <<sales_row, return.value>> ELSE <<sales_row>>,
         should_end_row |-> is_last_row_in_order(remaining)]

web_sales_generate_order_info(ss, row_number) ==
    LET ws_sold_date_sk == generate_date_join_key(ss["WsSoldDateSk"])
        ws_bill_customer_sk == generate_join_key(CustomerRows, ss["WsBillCustomerSk"])
        random_int == generate_uniform_random_int(0, 99, ss["WsShipCustomerSk"])
        ship_customer == generate_join_key(CustomerRows, random_int.stream)
        is_gift == random_int.value > WS_GIFT_PERCENTAGE
    IN  [value |-> [sold_date_sk |-> ws_sold_date_sk.value,
                    customer_sk |-> ws_bill_customer_sk.value,
                    ship_customer_sk |-> IF is_gift THEN ship_customer.value
                                         ELSE ws_bill_customer_sk.value,
                    order_number |-> row_number],
         streams |-> [ss EXCEPT
                        !["WsSoldDateSk"] = ws_sold_date_sk.stream,
                        !["WsBillCustomerSk"] = ws_bill_customer_sk.stream,
                        !["WsShipCustomerSk"] = IF is_gift THEN ship_customer.stream
                                                ELSE random_int.stream]]

\* number of line items of a new web_sales order
ws_remaining_line_items(stream) == generate_uniform_random_int(8, 16, stream)

\* variant: the comparison of the roll reversed
ws_is_returned_reversed(random_int) == random_int >= RETURN_PERCENTAGE

ws_is_returned(random_int) == random_int < RETURN_PERCENTAGE

web_sales_generate_row_and_child_rows(g, row_number) ==
    LET permutation == item_permutation_of(g, "WsPermutation")
        new_order == g.remaining_line_items = 0
        info == web_sales_generate_order_info(g.streams, row_number)
        order_info == IF new_order THEN info.value ELSE g.order_info
        ss == IF new_order THEN info.streams ELSE g.streams
        first_item == generate_uniform_random_int(1, item_count, ss["WsItemSk"])
        line_items == ws_remaining_line_items(ss["WsOrderNumber"])
        null_bit_map == create_null_bit_map("web_sales", ss["WsNulls"])
        ship_lag == generate_uniform_random_int(1, 120, ss["WsShipDateSk"])
        item_index == next_item_index(IF new_order THEN first_item.value ELSE g.item_index)
        ws_pricing == generate_pricing_for_sales_table(get_web_sales_pricing_limits,
                                                      ss["WsPricing"])
        sales_row == [table |-> "web_sales",
                      null_bit_map |-> null_bit_map.value,
                      sold_date_sk |-> order_info.sold_date_sk,
                      ship_date_sk |-> order_info.sold_date_sk + ship_lag.value,
                      item_sk |-> match_surrogate_key(
                                      get_permutation_entry(permutation.value, item_index),
                                      order_info.sold_date_sk, ItemRows),
                      customer_sk |-> order_info.customer_sk,
                      ship_customer_sk |-> order_info.ship_customer_sk,
                      order_number |-> order_info.order_number,
                      quantity |-> ws_pricing.value.quantity,
                      pricing |-> ws_pricing.value]
        random_int == generate_uniform_random_int(0, 99, ss["WrIsReturned"])
        return == web_returns_generate_row(g.child_streams, sales_row)
        remaining == (IF new_order THEN line_items.value ELSE g.remaining_line_items) - 1
    IN  [g |-> [g EXCEPT
                  !.streams = [ss EXCEPT
                      !["WsPermutation"] = permutation.stream,
                      !["WsItemSk"] = IF new_order THEN first_item.stream ELSE @,
                      !["WsOrderNumber"] = IF new_order THEN line_items.stream ELSE @,
                      !["WsNulls"] = null_bit_map.stream,
                      !["WsShipDateSk"] = ship_lag.stream,
                      !["WsPricing"] = ws_pricing.stream,
                      !["WrIsReturned"] = random_int.stream],
                  !.child_streams = IF ws_is_returned(random_int.value)
                                    THEN return.streams ELSE @,
                  !.item_permutation = permutation.value,
                  !.order_info = order_info,
                  !.item_index = item_index,
                  !.remaining_line_items = remaining],
         rows |-> IF ws_is_returned(random_int.value)
                  THEN <<sales_row, return.value>> ELSE <<sales_row>>,
         should_end_row |-> is_last_row_in_order(remaining)]

\* ------------------------------------------------------------------------
\* Generators of the tables the simple driver loop writes
\* ------------------------------------------------------------------------
WarehouseRows == 5

\* variant: the warehouse is taken from the index before it is divided by
\* the item count
inventory_decode_same_index(row_number, item_id_count, warehouse_count) ==
    LET index == row_number - 1
    IN  [inv_item_sk_unique |-> (index % item_id_count) + 1,
         inv_warehouse_sk |-> (index % warehouse_count) + 1,
         inv_date_sk |-> JULIAN_DATE_MINIMUM
                            + ((index \div item_id_count) \div warehouse_count) * 7]

\* "Decode the row number into item, warehouse, and date indices" for a
\* scaling with the given id count of item and row count of warehouse
inventory_decode(row_number, item_id_count, warehouse_count) ==
    LET index == row_number - 1
        index2 == index \div item_id_count
    IN  [inv_item_sk_unique |-> (index % item_id_count) + 1,
         inv_warehouse_sk |-> (index2 % warehouse_count) + 1,
         inv_date_sk |-> JULIAN_DATE_MINIMUM + (index2 \div warehouse_count) * 7]

inventory_generate_row_and_child_rows(g, row_number) ==
    LET null_bit_map == create_null_bit_map("inventory", g.streams["InvNulls"])
        decoded == inventory_decode(row_number, item_count, WarehouseRows)
        inv_item_sk_unique == decoded.inv_item_sk_unique
        inv_warehouse_sk == decoded.inv_warehouse_sk
        inv_date_sk == decoded.inv_date_sk
        inv_quantity_on_hand ==
            generate_uniform_random_int(0, 1000, g.streams["InvQuantityOnHand"])
        row == [table |-> "inventory",
                null_bit_map |-> null_bit_map.value,
                inv_date_sk |-> inv_date_sk,
                inv_item_sk |-> match_surrogate_key(inv_item_sk_unique, inv_date_sk, ItemRows),
                inv_warehouse_sk |-> inv_warehouse_sk,
                inv_quantity_on_hand |-> inv_quantity_on_hand.value]
    IN  [g |-> [g EXCEPT !.streams = [@ EXCEPT
                    !["InvNulls"] = null_bit_map.stream,
                    !["InvQuantityOnHand"] = inv_quantity_on_hand.stream]],
         rows |-> <<row>>,
         should_end_row |-> TRUE]

min_item_markdown_pct == 30
max_item_markdown_pct == 90

\* the item row: of the fields under SCD control the wholesale cost (third
\* flag bit), given as its markdown over a unit current price
generate_item_row(g, row_number) ==
    LET null_bit_map == create_null_bit_map("item", g.streams["INulls"])
        scd == next_random(g.streams["IScd"])
        field_change_flags == AsI32(scd.seed)
        markdown == generate_uniform_random_decimal(min_item_markdown_pct,
                        max_item_markdown_pct, g.streams["IWholesaleCost"])
        i_wholesale_cost ==
            IF g.previous_row # <<>>
            THEN get_value_for_slowly_changing_dimension(
                     field_change_flags \div 4, is_new_business_key(row_number),
                     g.previous_row[1].i_wholesale_cost, markdown.value)
            ELSE markdown.value
    IN  [value |-> [table |-> "item",
                    null_bit_map |-> null_bit_map.value,
                    i_item_sk |-> row_number,
                    i_wholesale_cost |-> i_wholesale_cost],
         streams |-> [g.streams EXCEPT !["INulls"] = null_bit_map.stream,
                                       !["IScd"] = scd,
                                       !["IWholesaleCost"] = markdown.stream]]

item_generate_row_and_child_rows(g, row_number) ==
    LET row == generate_item_row(g, row_number)
    IN  [g |-> [g EXCEPT !.streams = row.streams, !.previous_row = <<row.value>>],
         rows |-> <<row.value>>,
         should_end_row |-> TRUE]

STORE_MIN_DAYS_OPEN == 5
STORE_MAX_DAYS_OPEN == 500
STORE_CLOSED_PCT == 30

\* variant: a store is closed up to STORE_CLOSED_PCT
store_closed_date_id_inclusive(percentage, days_open) ==
    IF percentage <= STORE_CLOSED_PCT THEN JULIAN_DATE_MINIMUM + days_open ELSE -1

\* the closed date generated for the row, before the SCD choice between it
\* and the closed date of the previous row
store_closed_date_id(percentage, days_open) ==
    IF percentage < STORE_CLOSED_PCT THEN JULIAN_DATE_MINIMUM + days_open ELSE -1

\* the store row: of the fields under SCD control the closed date (first
\* flag bit) and the employees (third flag bit)
generate_store_row(g, row_number) ==
    LET null_bit_map == create_null_bit_map("store", g.streams["WStoreNulls"])
        scd == next_random(g.streams["WStoreScd"])
        field_change_flags == AsI32(scd.seed)
        percentage == generate_uniform_random_int(1, 100, g.streams["WStoreClosedDateId"])
        days_open == generate_uniform_random_int(STORE_MIN_DAYS_OPEN, STORE_MAX_DAYS_OPEN,
                                                 percentage.stream)
        closed == store_closed_date_id(percentage.value, days_open.value)
        closed_date_id ==
            IF g.previous_row # <<>>
            THEN get_value_for_slowly_changing_dimension(
                     field_change_flags, is_new_business_key(row_number),
                     g.previous_row[1].closed_date_id, closed)
            ELSE closed
        new_employees == generate_uniform_random_int(200, 300, g.streams["WStoreEmployees"])
        employees ==
            IF g.previous_row # <<>>
            THEN get_value_for_slowly_changing_dimension(
                     field_change_flags \div 4, is_new_business_key(row_number),
                     g.previous_row[1].employees, new_employees.value)
            ELSE new_employees.value
    IN  [value |-> [table |-> "store",
                    null_bit_map |-> null_bit_map.value,
                    store_sk |-> row_number,
                    closed_date_id |-> closed_date_id,
                    employees |-> employees],
         streams |-> [g.streams EXCEPT !["WStoreNulls"] = null_bit_map.stream,
                                       !["WStoreScd"] = scd,
                                       !["WStoreClosedDateId"] = days_open.stream,
                                       !["WStoreEmployees"] = new_employees.stream]]

store_generate_row_and_child_rows(g, row_number) ==
    LET row == generate_store_row(g, row_number)
    IN  [g |-> [g EXCEPT !.streams = row.streams, !.previous_row = <<row.value>>],
         rows |-> <<row.value>>,
         should_end_row |-> TRUE]

\* variant: the version string also stamped with the clock
generate_dbgen_version_row_stamped(now) ==
    [table |-> "dbgen_version",
     null_bit_map |-> {},
     dv_version |-> <<"2.0.0", now>>,
     dv_create_date |-> now,
     dv_create_time |-> now,
     dv_cmdline_args |-> "args"]

\* the dbgen_version row; now is the reading of the local clock
generate_dbgen_version_row(now) ==
    [table |-> "dbgen_version",
     null_bit_map |-> {},
     dv_version |-> "2.0.0",
     dv_create_date |-> now,
     dv_create_time |-> now,
     dv_cmdline_args |-> "args"]

dbgen_version_generate_row_and_child_rows(g, now) ==
    [g |-> g, rows |-> <<generate_dbgen_version_row(now)>>, should_end_row |-> TRUE]

\* ------------------------------------------------------------------------
\* AbstractRowGenerator (row/abstract_row_generator.rs)
\* ------------------------------------------------------------------------
\* one stream per generator column of the table
new_streams(base, table) ==
    [col \in Columns(table) |->
        new_with_column(base, get_global_column_number(col), get_seeds_per_row(col))]

\* the filler loop on one stream: while seeds_used < seeds_per_row one
\* uniform_int(1, 100) is drawn and dropped, that is one step each
fill_row(stream) ==
    IF stream.seeds_used < stream.seeds_per_row
    THEN Advance(stream, stream.seeds_per_row - stream.seeds_used)
    ELSE stream

\* variant: the filler loop without the reset of seeds_used
consume_without_reset(streams) ==
    [col \in DOMAIN streams |-> fill_row(streams[col])]

consume_remaining_seeds_for_row(streams) ==
    [col \in DOMAIN streams |-> reset_seeds_used(fill_row(streams[col]))]

skip_rows_until_starting_row_number(streams, starting_row_number) ==
    [col \in DOMAIN streams |-> skip_rows(streams[col], starting_row_number)]

\* skip_rows_until_starting_row_number of each generator
store_sales_skip(g, starting_row_number) ==
    [g EXCEPT !.streams = skip_rows_until_starting_row_number(@, starting_row_number)]

catalog_sales_skip(g, starting_row_number) ==
    [g EXCEPT !.streams = skip_rows_until_starting_row_number(@, starting_row_number)]

web_sales_skip(g, starting_row_number) ==
    [g EXCEPT !.streams = skip_rows_until_starting_row_number(@, starting_row_number)]

inventory_skip(g, starting_row_number) == g

item_skip(g, starting_row_number) ==
    [g EXCEPT !.streams = skip_rows_until_starting_row_number(@, starting_row_number)]

store_skip(g, starting_row_number) ==
    [g EXCEPT !.streams = skip_rows_until_starting_row_number(@, starting_row_number)]

dbgen_version_skip(g, starting_row_number) ==
    [g EXCEPT !.streams = skip_rows_until_starting_row_number(@, starting_row_number)]

\* the generator of a table after new()
new_generator(base, table) ==
    [streams |-> new_streams(base, table),
     child_streams |-> IF table \in SalesTables
                       THEN new_streams(base, ChildTable(table)) ELSE <<>>,
     item_permutation |-> <<>>,
     julian_date |-> IF table = "catalog_sales" THEN JULIAN_DATA_START_DATE ELSE 0,
     next_date_index |-> 0,
     remaining_line_items |-> 0,
     order_info |-> [sold_date_sk |-> 0, customer_sk |-> 0, order_number |-> 0],
     item_index |-> 0,
     previous_row |-> <<>>]

\* ------------------------------------------------------------------------
\* State: one table generated by a driver loop of main.rs, run twice
\* ------------------------------------------------------------------------
VARIABLES
    base,         \* seed base of the streams
    table,        \* the table being generated
    run,          \* 1: first run of the program, 2: an independent second run
    gen,          \* the row generator
    row_number,   \* the driver's row / order number
    pc,           \* the driver's position in its loop
    result,       \* the last RowGeneratorResult, <<>> before the first call
    calls,        \* history: calls of generate_row_and_child_rows in this run
    line,         \* history: calls made for the current order
    arg,          \* history: row number passed to the last call
    order_row,    \* history: row number passed to the call that began the order
    order_lines,  \* history: line items drawn for the current order
    order_items,  \* history: item indexes selected for the current order
    skip_calls,   \* history: value of calls when the run skipped rows, -1 if never
    boundary,     \* history: steps of every stream at its last row boundary
    log,          \* history: rows of run 1 up to its skip, by <<row number, line>>
    direct,       \* history: calls made directly on the returns generator
    input,        \* the arguments a function is applied to, <<>> in a driver run
    output        \* what the function returned, <<>> before the call

vars == <<base, table, run, gen, row_number, pc, result, calls, line, arg,
          order_row, order_lines, order_items, skip_calls, boundary, log, direct, input, output>>

steps_of(streams) == [col \in DOMAIN streams |-> streams[col].steps]

Fresh(b, t) ==
    /\ gen = new_generator(b, t)
    /\ row_number = 1
    /\ pc = "generate"
    /\ result = <<>>
    /\ calls = 0
    /\ line = 0
    /\ arg = 0
    /\ order_row = 0
    /\ order_lines = 0
    /\ order_items = <<>>
    /\ skip_calls = -1
    /\ direct = 0
    /\ boundary = [streams |-> steps_of(new_streams(b, t)),
                   child_streams |-> steps_of(new_generator(b, t).child_streams)]

Init ==
    /\ base \in 0..MaxSeedBase
    /\ table \in Tables
    /\ run = 1
    /\ log = <<>>
    /\ input = <<>>
    /\ output = <<>>
    /\ Fresh(base, table)

\* variant: the block that ends the row is entered after every result
after_every_result(should_end_row) == "consume"

\* what the drivers do with a result: the block that ends the row is entered
\* only if result.should_end_row()
after_result(should_end_row) == IF should_end_row THEN "consume" ELSE "generate"

\* variant: the loop condition is row_number < num_orders
after_row_early(next_row_number) == IF next_row_number < MaxOrders THEN "generate" ELSE "done"

\* the loop condition after row_number += 1
after_row(next_row_number) == IF next_row_number <= MaxOrders THEN "generate" ELSE "done"

\* bookkeeping of a call with argument a that returned r
Called(a, r) ==
    LET new_order == gen.remaining_line_items = 0
    IN  /\ gen' = r.g
        /\ result' = [rows |-> r.rows, should_end_row |-> r.should_end_row]
        /\ calls' = calls + 1
        /\ line' = IF new_order THEN 1 ELSE line + 1
        /\ arg' = a
        /\ order_row' = IF new_order THEN a ELSE order_row
        /\ order_lines' = IF new_order THEN r.g.remaining_line_items + 1 ELSE order_lines
        /\ order_items' = IF new_order THEN <<r.g.item_index>>
                         ELSE Append(order_items, r.g.item_index)
        /\ log' = IF run = 1 /\ skip_calls = -1
                  THEN (<<row_number, IF new_order THEN 1 ELSE line + 1>> :> r.rows) @@ log
                  ELSE log
        /\ UNCHANGED <<base, table, run, row_number, skip_calls, boundary, direct,
                      input, output>>

\* main.rs generate_store_sales: the loop body up to the test of the result
GenerateStoreSales ==
    /\ table = "store_sales"
    /\ pc = "generate"
    /\ LET r == store_sales_generate_row_and_child_rows(gen, row_number)
       IN  /\ Called(row_number, r)
           /\ pc' = after_result(r.should_end_row)

GenerateCatalogSales ==
    /\ table = "catalog_sales"
    /\ pc = "generate"
    /\ LET r == catalog_sales_generate_row_and_child_rows(gen, row_number)
       IN  /\ Called(row_number, r)
           /\ pc' = after_result(r.should_end_row)

GenerateWebSales ==
    /\ table = "web_sales"
    /\ pc = "generate"
    /\ LET r == web_sales_generate_row_and_child_rows(gen, row_number)
       IN  /\ Called(row_number, r)
           /\ pc' = after_result(r.should_end_row)

\* a caller that passes the next row number inside an order, as
\* test_store_sales_order_grouping does for its second call
GenerateInOrder ==
    /\ table = "store_sales"
    /\ pc = "generate"
    /\ calls = 1
    /\ gen.remaining_line_items > 0
    /\ LET r == store_sales_generate_row_and_child_rows(gen, row_number + 1)
       IN  /\ Called(row_number + 1, r)
           /\ pc' = after_result(r.should_end_row)

\* main.rs generate_simple: generate and write one row
simple_generate(t, g, n, now) ==
    CASE t = "inventory" -> inventory_generate_row_and_child_rows(g, n)
      [] t = "item" -> item_generate_row_and_child_rows(g, n)
      [] t = "store" -> store_generate_row_and_child_rows(g, n)
      [] t = "dbgen_version" -> dbgen_version_generate_row_and_child_rows(g, now)

GenerateSimple ==
    /\ table \notin SalesTables
    /\ pc = "generate"
    /\ \E now \in 0..(IF table = "dbgen_version" THEN MaxClock ELSE 0) :
          /\ Called(row_number, simple_generate(table, gen, row_number, now))
          /\ pc' = "consume"

\* the tables whose returns generator implements RowGenerator
PanickingChildOf(t) == t \in {"store_sales", "catalog_sales"}

\* a caller invokes the trait method on the returns generator itself; the
\* panic ends the program
GenerateReturnsDirectly ==
    /\ PanickingChildOf(table)
    /\ pc = "generate"
    /\ LET r == returns_generate_row_and_child_rows(ChildTable(table), gen.child_streams,
                                                   row_number)
       IN  /\ gen' = [gen EXCEPT !.child_streams = r.streams]
           /\ result' = IF r.panicked THEN result
                        ELSE [rows |-> r.rows, should_end_row |-> TRUE]
           /\ pc' = IF r.panicked THEN "panic" ELSE "generate"
    /\ direct' = direct + 1
    /\ UNCHANGED <<base, table, run, row_number, calls, line, arg, order_row,
                   order_lines, order_items, skip_calls, boundary, log, input, output>>

\* consume_remaining_seeds_for_row() of the generator being driven
ConsumeRemainingSeedsForRow ==
    /\ pc = "consume"
    /\ gen' = [gen EXCEPT !.streams = consume_remaining_seeds_for_row(@)]
    /\ boundary' = [boundary EXCEPT !.streams = steps_of(gen'.streams)]
    /\ row_number' = IF table \in SalesTables THEN row_number ELSE row_number + 1
    /\ pc' = IF table \in SalesTables THEN "consume_child" ELSE after_row(row_number + 1)
    /\ UNCHANGED <<base, table, run, result, calls, line, arg, order_row, order_lines, order_items,
                   skip_calls, log, direct, input, output>>

\* consume_child_seeds() of a sales generator, then row_number += 1
ConsumeChildSeeds ==
    /\ pc = "consume_child"
    /\ gen' = [gen EXCEPT !.child_streams = consume_remaining_seeds_for_row(@)]
    /\ boundary' = [boundary EXCEPT !.child_streams = steps_of(gen'.child_streams)]
    /\ row_number' = row_number + 1
    /\ pc' = after_row(row_number + 1)
    /\ UNCHANGED <<base, table, run, result, calls, line, arg, order_row, order_lines, order_items,
                   skip_calls, log, direct, input, output>>

generator_skip(t, g, k) ==
    CASE t = "store_sales" -> store_sales_skip(g, k)
      [] t = "catalog_sales" -> catalog_sales_skip(g, k)
      [] t = "web_sales" -> web_sales_skip(g, k)
      [] t = "inventory" -> inventory_skip(g, k)
      [] t = "item" -> item_skip(g, k)
      [] t = "store" -> store_skip(g, k)
      [] t = "dbgen_version" -> dbgen_version_skip(g, k)

\* a worker positions the generator on row k between two rows, at most once
\* in a run, and goes on from row k
SkipRowsUntilStartingRowNumber ==
    /\ pc = "generate"
    /\ gen.remaining_line_items = 0
    /\ skip_calls = -1
    /\ \E k \in 1..MaxOrders :
          /\ gen' = generator_skip(table, gen, k)
          /\ row_number' = k
    /\ skip_calls' = calls
    /\ boundary' = [boundary EXCEPT !.streams = steps_of(gen'.streams)]
    /\ UNCHANGED <<base, table, run, pc, result, calls, line, arg, order_row,
                   order_lines, order_items, log, direct, input, output>>

\* the program is run again: same table, same seeds, a fresh generator
Restart ==
    /\ pc = "done"
    /\ run = 1
    /\ run' = 2
    /\ gen' = new_generator(base, table)
    /\ row_number' = 1
    /\ pc' = "generate"
    /\ result' = <<>>
    /\ calls' = 0
    /\ line' = 0
    /\ arg' = 0
    /\ order_row' = 0
    /\ order_lines' = 0
    /\ order_items' = <<>>
    /\ skip_calls' = -1
    /\ direct' = 0
    /\ boundary' = [streams |-> steps_of(new_streams(base, table)),
                    child_streams |-> steps_of(new_generator(base, table).child_streams)]
    /\ UNCHANGED <<base, table, log, input, output>>

Next ==
    \/ GenerateStoreSales
    \/ GenerateCatalogSales
    \/ GenerateWebSales
    \/ GenerateInOrder
    \/ GenerateSimple
    \/ GenerateReturnsDirectly
    \/ ConsumeRemainingSeedsForRow
    \/ ConsumeChildSeeds
    \/ SkipRowsUntilStartingRowNumber
    \/ Restart

Spec == Init /\ [][Next]_vars

\* The driver loops as main.rs runs them: one thread that calls the
\* generator with its own row number, ends the row when the result says so,
\* and goes on until the loop condition fails.  No caller skips rows, calls
\* the returns generator or runs the program again.
LoopNext ==
    \/ GenerateStoreSales
    \/ GenerateCatalogSales
    \/ GenerateWebSales
    \/ GenerateSimple
    \/ ConsumeRemainingSeedsForRow
    \/ ConsumeChildSeeds

\* the thread is at a step of its loop and takes it: every step of LoopNext
\* leaves the position in the loop or makes a call of the generator
LoopStep ==
    /\ pc \in {"generate", "consume", "consume_child"}
    /\ pc' \in {"generate", "consume", "consume_child", "done"}
    /\ calls' \in {calls, calls + 1}

\* the thread is never stopped between two steps of its loop: while the
\* loop has not ended, its next step is taken
LoopSpec == Init /\ [][LoopNext]_vars /\ WF_<<pc, calls>>(LoopStep)

\* ------------------------------------------------------------------------
\* Rows as text (row/*_row.rs, row/table_row.rs) and the ISO-8859-1 writer
\* (output.rs).  A string is the sequence of the code points of its chars,
\* a buffer a sequence of bytes.
\* ------------------------------------------------------------------------
RECURSIVE Digits(_)
Digits(n) == IF n < 10 THEN <<48 + n>> ELSE Append(Digits(n \div 10), 48 + (n % 10))

\* i64::to_string / i32::to_string
to_string(n) == IF n < 0 THEN <<45>> \o Digits(0 - n) ELSE Digits(n)

\* (null_bit_map & (1 << bit_position)) != 0, the bitmap being the set of
\* its bits
is_null_at(null_bit_map, column, first_column) ==
    LET bit_position == column - first_column
    IN  bit_position \in null_bit_map

\* get_string_or_null_for_key of the row type of table t
get_string_or_null_for_key(t, key, is_null) ==
    CASE t \in {"store_sales", "store_returns"} ->
             IF key = -1 \/ is_null THEN <<>> ELSE to_string(key)
      [] t \in {"catalog_sales", "catalog_returns", "store"} ->
             IF is_null \/ key < 0 THEN <<>> ELSE to_string(key)
      [] t \in {"inventory", "item", "web_sales", "web_returns"} ->
             IF is_null THEN <<>> ELSE to_string(key)

\* variant: the value is written whatever the bitmap says
get_string_or_null_unchecked(value, is_null) == to_string(value)

\* get_string_or_null / get_string_or_null_int of an integer
get_string_or_null(value, is_null) == IF is_null THEN <<>> ELSE to_string(value)

\* the row types written out here
RowTables == {"store_sales", "catalog_sales", "web_sales", "inventory"}

\* of the values of get_values those of the fields a row has in this model,
\* in the order of get_values: field, generator column, global column
\* number, and whether get_string_or_null_for_key writes it
ValueColumns(t) ==
    CASE t = "store_sales" ->
             << [field |-> "sold_date_sk", name |-> "SsSoldDateSk", column |-> 314, key |-> TRUE],
                [field |-> "item_sk", name |-> "SsSoldItemSk", column |-> 316, key |-> TRUE],
                [field |-> "customer_sk", name |-> "SsSoldCustomerSk", column |-> 317, key |-> TRUE],
                [field |-> "order_number", name |-> "SsTicketNumber", column |-> 323, key |-> TRUE],
                [field |-> "quantity", name |-> "SsPricingQuantity", column |-> 324, key |-> FALSE] >>
      [] t = "catalog_sales" ->
             << [field |-> "sold_date_sk", name |-> "CsSoldDateSk", column |-> 75, key |-> TRUE],
                [field |-> "ship_date_sk", name |-> "CsShipDateSk", column |-> 77, key |-> TRUE],
                [field |-> "customer_sk", name |-> "CsBillCustomerSk", column |-> 78, key |-> TRUE],
                [field |-> "ship_customer_sk", name |-> "CsShipCustomerSk", column |-> 82, key |-> TRUE],
                [field |-> "item_sk", name |-> "CsSoldItemSk", column |-> 90, key |-> TRUE],
                [field |-> "order_number", name |-> "CsOrderNumber", column |-> 92, key |-> FALSE],
                [field |-> "quantity", name |-> "CsPricingQuantity", column |-> 93, key |-> FALSE] >>
      [] t = "web_sales" ->
             << [field |-> "sold_date_sk", name |-> "WsSoldDateSk", column |-> 409, key |-> TRUE],
                [field |-> "ship_date_sk", name |-> "WsShipDateSk", column |-> 411, key |-> TRUE],
                [field |-> "item_sk", name |-> "WsItemSk", column |-> 412, key |-> TRUE],
                [field |-> "customer_sk", name |-> "WsBillCustomerSk", column |-> 413, key |-> TRUE],
                [field |-> "ship_customer_sk", name |-> "WsShipCustomerSk", column |-> 417, key |-> TRUE],
                [field |-> "order_number", name |-> "WsOrderNumber", column |-> 426, key |-> TRUE],
                [field |-> "quantity", name |-> "WsPricingQuantity", column |-> 427, key |-> FALSE] >>
      [] t = "inventory" ->
             << [field |-> "inv_date_sk", name |-> "InvDateSk", column |-> 198, key |-> TRUE],
                [field |-> "inv_item_sk", name |-> "InvItemSk", column |-> 199, key |-> TRUE],
                [field |-> "inv_warehouse_sk", name |-> "InvWarehouseSk", column |-> 200, key |-> TRUE],
                [field |-> "inv_quantity_on_hand", name |-> "InvQuantityOnHand", column |-> 201,
                 key |-> FALSE] >>

\* TableRow::get_values of the row types of RowTables
get_values(row) ==
    LET cols == ValueColumns(row.table)
    IN  [i \in 1..Len(cols) |->
            LET is_null == is_null_at(row.null_bit_map, cols[i].column, cols[1].column)
            IN  IF cols[i].key
                THEN get_string_or_null_for_key(row.table, row[cols[i].field], is_null)
                ELSE get_string_or_null(row[cols[i].field], is_null)]

\* the UTF-8 bytes of a char
encode_utf8(c) ==
    IF c < 128 THEN <<c>>
    ELSE IF c < 2048 THEN <<192 + (c \div 64), 128 + (c % 64)>>
    ELSE <<224 + (c \div 4096), 128 + ((c \div 64) % 64), 128 + (c % 64)>>

\* str::as_bytes: the UTF-8 bytes of a string
RECURSIVE as_bytes(_)
as_bytes(str) == IF str = <<>> THEN <<>> ELSE encode_utf8(Head(str)) \o as_bytes(Tail(str))

\* std::str::from_utf8 of a buffer of chars of up to three bytes
RECURSIVE from_utf8(_)
from_utf8(buf) ==
    IF buf = <<>> THEN [ok |-> TRUE, chars |-> <<>>]
    ELSE LET b == buf[1]
             n == IF b < 128 THEN 1
                  ELSE IF b >= 192 /\ b < 224 THEN 2
                  ELSE IF b >= 224 /\ b < 240 THEN 3 ELSE 0
             well_formed == /\ n > 0
                            /\ Len(buf) >= n
                            /\ \A k \in 2..n : buf[k] >= 128 /\ buf[k] < 192
         IN  IF ~well_formed THEN [ok |-> FALSE, chars |-> <<>>]
             ELSE LET c == CASE n = 1 -> b
                             [] n = 2 -> (b - 192) * 64 + (buf[2] - 128)
                             [] n = 3 -> (b - 224) * 4096 + (buf[2] - 128) * 64
                                             + (buf[3] - 128)
                      rest == from_utf8(SubSeq(buf, n + 1, Len(buf)))
                  IN  [ok |-> rest.ok, chars |-> IF rest.ok THEN <<c>> \o rest.chars ELSE <<>>]

\* variant: a char above U+00FF is written as '?'
to_iso_8859_1_lossy(str) ==
    [ok |-> TRUE, kind |-> "",
     bytes |-> [i \in DOMAIN str |-> IF str[i] > 255 THEN 63 ELSE str[i] % 256]]

\* to_iso_8859_1: the chars collected into a Result, code as u8 each
to_iso_8859_1(str) ==
    IF \E i \in DOMAIN str : str[i] > 255
    THEN [ok |-> FALSE, kind |-> "InvalidData", bytes |-> <<>>]
    ELSE [ok |-> TRUE, kind |-> "", bytes |-> [i \in DOMAIN str |-> str[i] % 256]]

\* variant: the buffer goes to the inner writer as it is
iso8859_write_through(inner, buf) == [ok |-> TRUE, kind |-> "", inner |-> inner \o buf]

\* impl Write for Iso8859Writer: write(buf) on a writer whose inner writer
\* holds the bytes inner
iso8859_write(inner, buf) ==
    LET str == from_utf8(buf)
        iso_bytes == to_iso_8859_1(str.chars)
    IN  IF ~str.ok THEN [ok |-> FALSE, kind |-> "InvalidData", inner |-> inner]
        ELSE IF ~iso_bytes.ok THEN [ok |-> FALSE, kind |-> iso_bytes.kind, inner |-> inner]
        ELSE [ok |-> TRUE, kind |-> "", inner |-> inner \o iso_bytes.bytes]

\* Iso8859Writer::write_str on an empty inner writer
write_str(str) ==
    LET bytes == to_iso_8859_1(str)
    IN  [ok |-> bytes.ok, kind |-> bytes.kind, inner |-> bytes.bytes]

\* variant: no separator after the last value
pieces_without_trailing(values, separator) ==
    [k \in 1..(2 * Len(values)) |->
        IF k = 2 * Len(values) THEN [what |-> "newline", text |-> <<10>>]
        ELSE IF k % 2 = 1 THEN [what |-> "value", text |-> values[(k + 1) \div 2]]
        ELSE [what |-> "separator", text |-> <<separator>>]]

\* what the write! calls of TableRow::write_to are given, in their order:
\* value, separator, value, ..., value, separator, newline
pieces_of(values, separator) ==
    IF values = <<>>
    THEN <<[what |-> "separator", text |-> <<separator>>],
           [what |-> "newline", text |-> <<10>>]>>
    ELSE [k \in 1..(2 * Len(values) + 1) |->
             IF k = 2 * Len(values) + 1 THEN [what |-> "newline", text |-> <<10>>]
             ELSE IF k % 2 = 1 THEN [what |-> "value", text |-> values[(k + 1) \div 2]]
             ELSE [what |-> "separator", text |-> <<separator>>]]

\* the write! calls from the k-th on: each writes the UTF-8 bytes of its
\* text, and the first error ends write_to (the ? operator)
RECURSIVE write_from(_, _, _)
write_from(w, pieces, k) ==
    IF k > Len(pieces) THEN w
    ELSE LET r == iso8859_write(w.inner, as_bytes(pieces[k].text))
         IN  IF ~r.ok THEN [ok |-> FALSE, kind |-> r.kind, inner |-> r.inner,
                            written |-> w.written]
             ELSE write_from([ok |-> TRUE, kind |-> "", inner |-> r.inner,
                              written |-> Append(w.written, pieces[k].what)],
                             pieces, k + 1)

\* TableRow::write_to on an Iso8859Writer whose inner writer is empty;
\* written is the history of the write! calls that returned Ok
write_to(values, separator) ==
    write_from([ok |-> TRUE, kind |-> "", inner |-> <<>>, written |-> <<>>],
               pieces_of(values, separator), 1)

\* ------------------------------------------------------------------------
\* Functions applied to arguments of their own, with no driver running
\* ------------------------------------------------------------------------
the_driver == <<base, table, run, gen, row_number, pc, result, calls, line, arg,
                order_row, order_lines, order_items, skip_calls, boundary, log, direct>>

GetIdCountInputs == {[fn |-> "get_id_count", row_count |-> n] : n \in 0..MaxRowCount}

ScaleInventoryInputs ==
    {[fn |-> f, item_rows |-> i, warehouse_rows |-> w,
      date_minimum |-> JULIAN_DATE_MINIMUM, date_maximum |-> JULIAN_DATE_MINIMUM + d] :
        f \in {"scale_inventory", "generate_inventory"},
        i \in {0, 1, ItemRows}, w \in 1..MaxWarehouses, d \in 0..MaxDays}
    \cup
    {[fn |-> f, item_rows |-> ItemRows, warehouse_rows |-> WarehouseRows,
      date_minimum |-> JULIAN_DATE_MINIMUM, date_maximum |-> JULIAN_DATE_MAXIMUM] :
        f \in {"scale_inventory", "generate_inventory"}}

\* 'A', U+00FF and U+0100
Chars == {65, 255, 256}

\* '|', U+00E9 and U+20AC
Separators == {124, 233, 8364}

Strings(n) == UNION {[1..k -> Chars] : k \in 0..n}

\* values a field of a row is given, all other fields being 25
FieldValues == {-2, -1, 0, 25}

Rows ==
    UNION {
        LET cols == ValueColumns(t)
            none == [f \in {cols[i].field : i \in DOMAIN cols} |-> 25]
                        @@ [table |-> t, null_bit_map |-> {}]
        IN  {[none EXCEPT !.null_bit_map = m, ![cols[i].field] = v] :
                m \in SUBSET {cols[j].column - cols[1].column : j \in DOMAIN cols},
                i \in DOMAIN cols, v \in FieldValues}
        : t \in RowTables}

\* a stream that has just returned the value v from a draw of its row: the
\* 64-bit value it returned is its seed
stream_that_returned(v, seeds_per_row) ==
    [seed |-> v, seeds_used |-> 1, seeds_per_row |-> seeds_per_row, steps |-> 1]

GetValuesInputs == {[fn |-> "get_values", row |-> r] : r \in Rows}

WriteToInputs ==
    {[fn |-> "write_to", values |-> v, separator |-> c] :
        v \in UNION {[1..n -> Strings(MaxLen)] : n \in 1..MaxValues}, c \in Separators}

WriteStrInputs == {[fn |-> "write_str", str |-> x] : x \in Strings(MaxStringLen)}

\* ranges of a uniform draw: a percentage, a roll, a single value, a range
\* around zero and the range of the null bitmap
UniformRanges == {<<1, 100>>, <<0, 99>>, <<5, 5>>, <<-3, 3>>, <<1, MaxI32>>}

\* weights of 0..MaxWeight for 1..MaxWeights entries, and the weights of the test
WeightVectors ==
    UNION {[1..n -> 0..MaxWeight] : n \in 1..MaxWeights} \cup {<<10, 20, 30, 40>>}

FunctionInit ==
    /\ base = 0
    /\ table = "inventory"
    /\ run = 1
    /\ log = <<>>
    /\ Fresh(0, "inventory")
    /\ input \in GetIdCountInputs \cup ScaleInventoryInputs \cup GetValuesInputs
                   \cup WriteToInputs \cup WriteStrInputs
                   \* a catalog_sales generator is given the row numbers first_row,
                   \* first_row + 1, ... of the table as new orders
                   \cup {[fn |-> "generate_order_info", first_row |-> k] :
                            k \in 1..CatalogSalesRows}
                   \* the gift roll of a new catalog_sales order takes each of its
                   \* values in turn, for an order of the given bill customer
                   \cup {[fn |-> "cs_ship_customer", cs_bill_customer_sk |-> b] :
                            b \in 1..CustomerRows}
                   \* the closed-date percentage of a store row takes each of its
                   \* values in turn, the days-open draw being the given one
                   \cup {[fn |-> "store_closed_date_id", days_open |-> d] :
                            d \in {STORE_MIN_DAYS_OPEN, STORE_MAX_DAYS_OPEN}}
                   \* generate_uniform_random_int is given a range and a stream whose
                   \* next output has the given low 32 bits
                   \cup {[fn |-> "generate_uniform_random_int", min |-> r[1], max |-> r[2],
                           next |-> [high |-> h, low |-> l],
                           stream |-> Advance(new_with_column(0, 0, UsedSeedsPerRow), k)] :
                            r \in UniformRanges,
                            h \in {0, 1, 32767, 32768, 65535},
                            l \in {0, 1, 9, 10, 65535},
                            k \in 0..UsedSeedsPerRow}
                   \* generate_weighted_random_index is given weights, zero weights
                   \* among them, and a stream whose next output has the given
                   \* low 32 bits: every draw of 1..total_weight occurs
                   \cup {[fn |-> "generate_weighted_random_index", weights |-> w,
                           next |-> [high |-> h, low |-> l],
                           stream |-> Advance(new_with_column(0, 0, UsedSeedsPerRow), k)] :
                            w \in WeightVectors,
                            h \in {0, 65535},
                            l \in (0..(MaxWeight * MaxWeights)) \cup {9, 10, 29, 30, 59, 60, 99},
                            k \in {0, UsedSeedsPerRow}}
                   \* the streams of a table's generator are created and looked up
                   \cup {[fn |-> "get_random_number_stream", table |-> t] :
                            t \in {"store_sales", "inventory", "dbgen_version"}}
                   \* the inventory generator is given the row numbers 1, 2, ... up
                   \* to the inventory row count of a small scaling
                   \cup {[fn |-> "inventory", item_rows |-> i, warehouse_rows |-> w,
                           date_maximum |-> JULIAN_DATE_MINIMUM + d] :
                            i \in {1, 2, 4}, w \in 1..MaxWarehouses, d \in 0..MaxDays}
    /\ output = <<>>

\* scaling.get_id_count(Table::Item) with the row count of the input
GetIdCount ==
    /\ output = <<>>
    /\ input.fn = "get_id_count"
    /\ output' = [value |-> get_id_count(input.row_count)]
    /\ UNCHANGED <<the_driver, input>>

\* scaling.get_row_count(Table::Inventory)
ScaleInventory ==
    /\ output = <<>>
    /\ input.fn = "scale_inventory"
    /\ output' = [value |-> scale_inventory(input.item_rows, input.warehouse_rows,
                                            input.date_minimum, input.date_maximum)]
    /\ UNCHANGED <<the_driver, input>>

\* generate_inventory up to its loop
GenerateInventoryNumRows ==
    /\ output = <<>>
    /\ input.fn = "generate_inventory"
    /\ output' = [value |-> generate_inventory_num_rows(input.item_rows, input.warehouse_rows,
                                                        input.date_minimum, input.date_maximum)]
    /\ UNCHANGED <<the_driver, input>>

\* row.get_values()
GetValues ==
    /\ output = <<>>
    /\ input.fn = "get_values"
    /\ output' = [value |-> get_values(input.row)]
    /\ UNCHANGED <<the_driver, input>>

\* row.write_to(&mut writer, separator) with a new Iso8859Writer
WriteTo ==
    /\ output = <<>>
    /\ input.fn = "write_to"
    /\ output' = write_to(input.values, input.separator)
    /\ UNCHANGED <<the_driver, input>>

\* writer.write_str(s) with a new Iso8859Writer
WriteStr ==
    /\ output = <<>>
    /\ input.fn = "write_str"
    /\ output' = write_str(input.str)
    /\ UNCHANGED <<the_driver, input>>

\* the date cursor over the new orders of one catalog_sales generator: the
\* first call initializes the cursor, every call of generate_order_info moves
\* it to the date of its row number, which becomes cs_sold_date_sk
GenerateOrderInfo ==
    /\ input.fn = "generate_order_info"
    /\ LET first_call == output = <<>>
           cursor == IF first_call THEN initial_date_cursor ELSE output.cursor
           order_number == IF first_call THEN input.first_row ELSE output.row_number + 1
           moved == advance_date(order_number, cursor.julian_date, cursor.next_date_index)
       IN  /\ order_number <= CatalogSalesRows
           /\ output' = [cursor |-> moved,
                         row_number |-> order_number,
                         cs_sold_date_sk |->
                             (order_number :> moved.julian_date)
                                 @@ (IF first_call THEN <<>> ELSE output.cs_sold_date_sk)]
    /\ UNCHANGED <<the_driver, input>>

\* generate_order_info from the gift roll on, for the rolls 0, 1, ..., 99 in
\* turn; gifts counts the rolls so far for which a ship customer was drawn
GenerateShipCustomer ==
    /\ input.fn = "cs_ship_customer"
    /\ LET roll == IF output = <<>> THEN 0 ELSE output.gift_percentage + 1
           gift_percentage ==
               [value |-> Rem(AsI32(roll), 99 - 0 + 1) + 0,
                stream |-> stream_that_returned(roll, get_seeds_per_row("CsShipCustomerSk"))]
           ship_customer == cs_ship_customer(gift_percentage, input.cs_bill_customer_sk)
           drawn == ship_customer.stream.steps > gift_percentage.stream.steps
       IN  /\ roll <= 99
           /\ output' = [gift_percentage |-> roll,
                         cs_ship_customer_sk |-> ship_customer.value,
                         drawn |-> drawn,
                         gifts |-> (IF output = <<>> THEN 0 ELSE output.gifts)
                                      + (IF drawn THEN 1 ELSE 0)]
    /\ UNCHANGED <<the_driver, input>>

\* generate_store_row from the closed-date draws on, for the percentages
\* 1, 2, ..., 100 in turn; closed counts the percentages so far that gave a
\* closed date
GenerateStoreClosedDate ==
    /\ input.fn = "store_closed_date_id"
    /\ LET drawn == IF output = <<>> THEN 0 ELSE output.drawn + 1
           percentage == Rem(AsI32(drawn), 100 - 1 + 1) + 1
           closed_date_id == store_closed_date_id(percentage, input.days_open)
       IN  /\ drawn <= 99
           /\ output' = [drawn |-> drawn,
                         percentage |-> percentage,
                         closed_date_id |-> closed_date_id,
                         closed |-> (IF output = <<>> THEN 0 ELSE output.closed)
                                       + (IF closed_date_id # -1 THEN 1 ELSE 0)]
    /\ UNCHANGED <<the_driver, input>>

\* generate_inventory: the rows 1..=num_rows are generated in turn; of a row
\* the decoded item, warehouse and date are kept, seen holds those of every
\* row generated so far
GenerateInventory ==
    /\ input.fn = "inventory"
    /\ LET row_no == IF output = <<>> THEN 1 ELSE output.row_number + 1
           num_rows == generate_inventory_num_rows(input.item_rows, input.warehouse_rows,
                                                   JULIAN_DATE_MINIMUM, input.date_maximum)
           decoded == inventory_decode(row_no, get_id_count(input.item_rows),
                                       input.warehouse_rows)
       IN  /\ row_no <= num_rows
           /\ output' = [row_number |-> row_no,
                         row |-> decoded,
                         seen |-> (IF output = <<>> THEN {} ELSE output.seen)
                                     \cup {decoded}]
    /\ UNCHANGED <<the_driver, input>>

\* AbstractRowGenerator::new(table): the streams of all generator columns of
\* the table in a vector, and the global column number of the first column
AbstractRowGenerator_new(b, t) ==
    LET columns == all_variants(t)
        column_count == Len(columns)
    IN  [table |-> t,
         random_number_streams |->
             [i \in 1..column_count |->
                 new_with_column(b, get_global_column_number(columns[i]),
                                 get_seeds_per_row(columns[i]))],
         base_global_column_number |->
             IF column_count > 0 THEN get_global_column_number(columns[1]) ELSE 0]

\* variant: the global column number itself is taken as the index
get_random_number_stream_global(generator, column) ==
    LET index == get_global_column_number(column)
    IN  IF index \in 0..(Len(generator.random_number_streams) - 1)
        THEN [column |-> column, index |-> index, drawn |-> FALSE]
        ELSE [panic |-> "index out of bounds"]

\* AbstractRowGenerator::get_random_number_stream(column): the reference
\* returned is given by the index (counted from 0) of the stream in the
\* vector; indexing outside the vector panics
get_random_number_stream(generator, column) ==
    LET index == get_global_column_number(column) - generator.base_global_column_number
    IN  IF index \in 0..(Len(generator.random_number_streams) - 1)
        THEN [column |-> column, index |-> index, drawn |-> FALSE]
        ELSE [panic |-> "index out of bounds"]

\* AbstractRowGenerator::new(table); created_from keeps, for every stream
\* pushed, the arguments of its new_with_column
NewAbstractRowGenerator ==
    /\ output = <<>>
    /\ input.fn = "get_random_number_stream"
    /\ LET generator == AbstractRowGenerator_new(base, input.table)
           columns == all_variants(input.table)
       IN  output' = [generator |-> generator,
                      created_from |->
                          [i \in 1..Len(generator.random_number_streams) |->
                              [global_column_number |-> get_global_column_number(columns[i]),
                               seeds_per_row |-> get_seeds_per_row(columns[i])]],
                      returned |-> <<>>,
                      lookups |-> 0]
    /\ UNCHANGED <<the_driver, input>>

\* a row generator asks for the stream of one of its table's columns
GetRandomNumberStream ==
    /\ output # <<>>
    /\ input.fn = "get_random_number_stream"
    /\ output.lookups < MaxLookups
    /\ output.returned = <<>> \/ "panic" \notin DOMAIN output.returned
    /\ \E i \in 1..Len(all_variants(input.table)) :
          output' = [output EXCEPT
                       !.returned = get_random_number_stream(output.generator,
                                                             all_variants(input.table)[i]),
                       !.lookups = @ + 1]
    /\ UNCHANGED <<the_driver, input>>

\* the caller draws one value through the reference returned, within the
\* column's seeds per row
NextRandomOfReturned ==
    /\ output # <<>>
    /\ input.fn = "get_random_number_stream"
    /\ output.returned # <<>>
    /\ "panic" \notin DOMAIN output.returned
    /\ ~output.returned.drawn
    /\ LET i == output.returned.index + 1
           stream == output.generator.random_number_streams[i]
       IN  /\ stream.seeds_used < stream.seeds_per_row
           /\ output' = [output EXCEPT
                            !.generator.random_number_streams[i] = next_random(stream),
                            !.returned.drawn = TRUE]
    /\ UNCHANGED <<the_driver, input>>

\* `weights.iter().sum()`
RECURSIVE total_weight(_)
total_weight(weights) ==
    IF weights = <<>> THEN 0 ELSE Head(weights) + total_weight(Tail(weights))

\* variant: the scan passes an entry whose cumulative weight equals the draw
RECURSIVE scan_weights_below(_, _, _, _)
scan_weights_below(weights, index, cumulative_weight, random_value) ==
    IF index >= Len(weights)
    THEN Len(weights) - 1
    ELSE IF random_value < cumulative_weight + weights[index + 1]
         THEN index
         ELSE scan_weights_below(weights, index + 1,
                                 cumulative_weight + weights[index + 1], random_value)

\* the loop of generate_weighted_random_index from the entry `index` (counted
\* from 0) on, and its fallback to the last index
RECURSIVE scan_weights(_, _, _, _)
scan_weights(weights, index, cumulative_weight, random_value) ==
    IF index >= Len(weights)
    THEN Len(weights) - 1
    ELSE IF random_value <= cumulative_weight + weights[index + 1]
         THEN index
         ELSE scan_weights(weights, index + 1,
                           cumulative_weight + weights[index + 1], random_value)

\* generate_weighted_random_index after its draw of random_value
weighted_random_index(weights, drawn) ==
    [value |-> scan_weights(weights, 0, 0, drawn.value),
     random_value |-> drawn.value,
     stream |-> drawn.stream]

\* RandomValueGenerator::generate_weighted_random_index(weights, stream) with a
\* stream whose call of next_random returns the bits of the input; with a
\* total weight of 0 the `%` of the draw panics
GenerateWeightedRandomIndex ==
    /\ output = <<>>
    /\ input.fn = "generate_weighted_random_index"
    /\ LET total == total_weight(input.weights)
       IN  output' = IF total = 0
                     THEN [panic |-> "attempt to calculate the remainder with a divisor of zero"]
                     ELSE weighted_random_index(input.weights,
                              uniform_random_int(1, total, next_random(input.stream),
                                                 halves_as_i32(input.next)))
    /\ UNCHANGED <<the_driver, input>>

\* RandomValueGenerator::generate_uniform_random_int(min, max, stream) with a
\* stream whose call of next_random returns the bits of the input
GenerateUniformRandomInt ==
    /\ output = <<>>
    /\ input.fn = "generate_uniform_random_int"
    /\ output' = uniform_random_int(input.min, input.max, next_random(input.stream),
                                    halves_as_i32(input.next))
    /\ UNCHANGED <<the_driver, input>>

FunctionNext ==
    \/ GetIdCount
    \/ ScaleInventory
    \/ GenerateInventoryNumRows
    \/ GetValues
    \/ WriteTo
    \/ WriteStr
    \/ GenerateOrderInfo
    \/ GenerateShipCustomer
    \/ GenerateStoreClosedDate
    \/ GenerateInventory
    \/ GenerateUniformRandomInt
    \/ GenerateWeightedRandomIndex
    \/ NewAbstractRowGenerator
    \/ GetRandomNumberStream
    \/ NextRandomOfReturned

FunctionSpec == FunctionInit /\ [][FunctionNext]_vars

TypeOK ==
    /\ run \in 1..2
    /\ pc \in {"generate", "consume", "consume_child", "done", "panic"}
    /\ gen.remaining_line_items >= 0

\* ------------------------------------------------------------------------
\* Properties
\* ------------------------------------------------------------------------
Max(a, b) == IF a >= b THEN a ELSE b

\* the last result is the one of the call just made (the driver has not yet
\* gone on to the next row)
JustGenerated ==
    /\ result # <<>>
    /\ \/ pc = "consume"
       \/ pc = "generate" /\ gen.remaining_line_items > 0

\* the place of the last result in a run
ResultKey == <<row_number, line>>

\* the *IsReturned column of a sales table
IsReturnedColumn(t) ==
    CASE t = "store_sales" -> "SrIsReturned"
      [] t = "catalog_sales" -> "CrIsReturned"
      [] t = "web_sales" -> "WrIsReturned"

\* the range of the line item count of a sales table
LineItemRange(t) ==
    CASE t = "store_sales" -> 8..16
      [] t = "catalog_sales" -> 4..14
      [] t = "web_sales" -> 8..16

\* steps a set of streams took since the last row boundary
AdvancedBy(streams, marks, col) == streams[col].steps - marks[col]

\* C1 as stated: a step of consume_remaining_seeds_for_row (of the generator
\* or of its returns generator) leaves every stream with seeds_used = 0 and
\* advanced by exactly seeds_per_row steps since the previous row boundary.
C1_ExactlySeedsPerRow ==
    [][(
       /\ pc = "consume" =>
            \A col \in DOMAIN gen.streams :
                /\ gen'.streams[col].seeds_used = 0
                /\ AdvancedBy(gen'.streams, boundary.streams, col)
                     = gen.streams[col].seeds_per_row
       /\ pc = "consume_child" =>
            \A col \in DOMAIN gen.child_streams :
                /\ gen'.child_streams[col].seeds_used = 0
                /\ AdvancedBy(gen'.child_streams, boundary.child_streams, col)
                     = gen.child_streams[col].seeds_per_row)]_vars

\* C1 amended: a step of consume_remaining_seeds_for_row leaves every stream
\* with seeds_used = 0 and advanced, since the previous row boundary, by
\* seeds_per_row steps if the row drew at most seeds_per_row values from it,
\* and by the number of values the row drew otherwise.
C1_SeedsPerRowUnlessOverdrawn ==
    [][(
       /\ pc = "consume" =>
            \A col \in DOMAIN gen.streams :
                /\ gen'.streams[col].seeds_used = 0
                /\ AdvancedBy(gen'.streams, boundary.streams, col)
                     = Max(gen.streams[col].seeds_per_row,
                           AdvancedBy(gen.streams, boundary.streams, col))
       /\ pc = "consume_child" =>
            \A col \in DOMAIN gen.child_streams :
                /\ gen'.child_streams[col].seeds_used = 0
                /\ AdvancedBy(gen'.child_streams, boundary.child_streams, col)
                     = Max(gen.child_streams[col].seeds_per_row,
                           AdvancedBy(gen.child_streams, boundary.child_streams, col)))]_vars

\* a row boundary of store_sales after the first order: the permutation
\* stream (seeds_per_row 0) has advanced, the nulls stream was filled up
C1_Witness ==
    /\ table = "store_sales"
    /\ pc = "consume_child"
    /\ row_number = 1
    /\ \A col \in DOMAIN gen.streams : gen.streams[col].seeds_used = 0
    /\ gen.streams["SsPermutation"].steps = item_count
    /\ gen.streams["SsNulls"].steps = 32

\* C2 as stated: the first result of a fresh generator that skipped to row k
\* equals the result a sequential run produced for row k.
C2_SkipThenGenerateIsSequential ==
    (/\ run = 2
     /\ skip_calls = 0
     /\ calls = 1
     /\ table # "dbgen_version"
     /\ <<arg, 1>> \in DOMAIN log)
        => result.rows = log[<<arg, 1>>]

\* C3 as stated: after every result of a sales generator the driver goes on
\* to consume_remaining_seeds_for_row.
C3_ConsumeAfterEachResult ==
    [][(table \in SalesTables /\ calls' = calls + 1) => pc' = "consume"]_vars

\* C3 amended: in the sales drivers consume_remaining_seeds_for_row and then
\* consume_child_seeds are invoked after a result when, and only when, the
\* result's end_of_parent flag is true.
C3_ConsumeOnlyAtEndOfParent ==
    [][(table \in SalesTables) => (
          /\ calls' = calls + 1 =>
                /\ result'.should_end_row => pc' = "consume"
                /\ ~result'.should_end_row => pc' = "generate"
          /\ pc = "consume" => (result.should_end_row /\ pc' = "consume_child")
          /\ pc = "consume_child" => (result.should_end_row /\ calls' = calls))]_vars

\* both calls made after the last of several results of an order
C3_Witness ==
    /\ table \in SalesTables
    /\ pc = "consume_child"
    /\ result.should_end_row
    /\ line > 1
    /\ \A col \in DOMAIN gen.streams : gen.streams[col].seeds_used = 0

\* C4: every call of a sales generator decrements remaining_line_items by
\* one (from the count drawn, if the call begins an order), returns
\* end_of_parent exactly when remaining_line_items is then 0, and begins a
\* new order iff there was no previous call or it returned end_of_parent.
C4_OrderGrouping ==
    [][(table \in SalesTables /\ calls' = calls + 1) => (
          /\ (line' = 1) <=> (result = <<>> \/ result.should_end_row)
          /\ line' # 1 =>
                /\ gen'.remaining_line_items = gen.remaining_line_items - 1
                /\ gen'.order_info = gen.order_info
                /\ gen'.item_index \in {gen.item_index + 1, 1}
          /\ line' = 1 => gen'.remaining_line_items + 1 \in LineItemRange(table)
          /\ result'.should_end_row <=> gen'.remaining_line_items = 0)]_vars

\* the second order of a run has begun after an end_of_parent
C4_Witness ==
    /\ table \in SalesTables
    /\ row_number = 2
    /\ line = 1
    /\ calls > 4
    /\ ~result.should_end_row
    /\ gen.order_info.order_number = 2

\* C5: every sales row of an order carries as its ticket / order number the
\* row number passed to the call that began the order, whatever row number
\* the later calls passed.
C5_SameTicketNumber ==
    (table \in SalesTables /\ result # <<>>) =>
        /\ result.rows[1].order_number = order_row
        /\ gen.order_info.order_number = order_row

\* a second call of an order that passed another row number
C5_Witness ==
    /\ table = "store_sales"
    /\ line = 2
    /\ arg # order_row
    /\ result.rows[1].order_number = order_row

C7_ReturnRoll ==
    [][(table \in SalesTables /\ calls' = calls + 1) => (
          LET col == IsReturnedColumn(table)
              roll == generate_uniform_random_int(0, 99, gen.streams[col])
          IN  /\ gen'.streams[col] = roll.stream
              /\ gen'.streams[col].steps = gen.streams[col].steps + 1
              /\ result'.rows[1].table = table
              /\ roll.value < 10 =>
                    /\ Len(result'.rows) = 2
                    /\ result'.rows[2].table = ChildTable(table)
                    /\ gen'.child_streams # gen.child_streams
              /\ roll.value >= 10 =>
                    /\ Len(result'.rows) = 1
                    /\ gen'.child_streams = gen.child_streams)]_vars

\* a web_sales result with a returns row
C7_Witness ==
    /\ table = "web_sales"
    /\ JustGenerated
    /\ Len(result.rows) = 2
    /\ result.rows[2].table = "web_returns"

\* C8: the returns row of a result carries the item key and the order /
\* ticket number of the sales row of the result.
C8_ReturnReferencesSale ==
    (table \in SalesTables /\ result # <<>> /\ Len(result.rows) = 2) =>
        /\ result.rows[2].item_sk = result.rows[1].item_sk
        /\ result.rows[2].order_number = result.rows[1].order_number

\* a store_sales result with a returns row
C8_Witness ==
    /\ table = "store_sales"
    /\ result # <<>>
    /\ Len(result.rows) = 2
    /\ result.rows[2].table = "store_returns"
    /\ result.rows[2].item_sk > 0

C10_SkipResetsPreviousRow ==
    [][(table \in ScdTables /\ skip_calls = -1 /\ skip_calls' # -1) =>
          gen'.previous_row = <<>>]_vars

\* the tables of the returns generators
ReturnsTables == {ChildTable(t) : t \in SalesTables}

ReturnsRows ==
    IF result = <<>> THEN {}
    ELSE {result.rows[i] : i \in {j \in DOMAIN result.rows :
                                      result.rows[j].table \in ReturnsTables}}

\* C12: in the pricing of every returns row, refunded_cash, reversed_charge
\* and store_credit are amounts of 0 or more that add up to net_paid exactly:
\* the cash is a share of net_paid, the reversed charge a share of what is
\* left after the cash, the store credit the balance.
C12_ReturnedAmountsAddUp ==
    \A row \in ReturnsRows :
        LET p == row.pricing
        IN  /\ p.refunded_cash.precision = p.net_paid.precision
            /\ p.reversed_charge.precision = p.net_paid.precision
            /\ p.store_credit.precision = p.net_paid.precision
            /\ p.refunded_cash.number + p.reversed_charge.number + p.store_credit.number
                   = p.net_paid.number
            /\ 0 <= p.refunded_cash.number
            /\ p.refunded_cash.number <= p.net_paid.number
            /\ 0 <= p.reversed_charge.number
            /\ p.reversed_charge.number <= p.net_paid.number - p.refunded_cash.number
            /\ 0 <= p.store_credit.number

\* a return whose three amounts are all above 0
C12_Witness ==
    \E row \in ReturnsRows :
        /\ row.pricing.refunded_cash.number > 0
        /\ row.pricing.reversed_charge.number > 0
        /\ row.pricing.store_credit.number > 0

\* the least k with k * b >= a
CeilDiv(a, b) == CHOOSE k \in 0..a : k * b >= a /\ (k = 0 \/ (k - 1) * b < a)

\* C13: the row count of inventory is item_id_count * warehouse_row_count *
\* weeks_in_range with weeks_in_range = ceil((date_maximum - date_minimum + 1)
\* / 7), in Scaling::scale_inventory and in the num_rows that bounds the loop
\* of generate_inventory.
C13_InventoryRowCount ==
    (output # <<>> /\ input.fn \in {"scale_inventory", "generate_inventory"}) =>
        output.value = get_id_count(input.item_rows) * input.warehouse_rows
                           * CeilDiv(input.date_maximum - input.date_minimum + 1, 7)

\* the driver has computed num_rows for the date range of the program:
\* 261 weeks
C13_Witness ==
    /\ output # <<>>
    /\ input.fn = "generate_inventory"
    /\ input.date_maximum = JULIAN_DATE_MAXIMUM
    /\ input.warehouse_rows = WarehouseRows
    /\ output.value = item_count * WarehouseRows * 261

\* r of the row count modulo 6
IdCountRemainder == <<0, 1, 2, 2, 3, 3>>

\* C14: for a table that keeps history and has n rows, get_id_count is
\* floor(n / 6) * 3 + r(n mod 6), r mapping 0, 1, 2, 3, 4, 5 to 0, 1, 2, 2, 3, 3.
C14_IdCount ==
    (output # <<>> /\ input.fn = "get_id_count") =>
        output.value = (input.row_count \div 6) * 3
                           + IdCountRemainder[(input.row_count % 6) + 1]

\* get_id_count was applied to a row count with remainder 3
C14_Witness ==
    /\ output # <<>>
    /\ input.fn = "get_id_count"
    /\ input.row_count % 6 = 3
    /\ input.row_count > 6

\* C15: a value of get_values is the empty string when the bit of the null
\* bitmap at the position of its column, the global column number of the
\* column minus the one of the first column of the table, is set.
C15_NullBitWritesEmpty ==
    (output # <<>> /\ input.fn = "get_values") =>
        LET cols == ValueColumns(input.row.table)
        IN  /\ Len(output.value) = Len(cols)
            /\ \A i \in DOMAIN cols :
                   (cols[i].column - cols[1].column) \in input.row.null_bit_map =>
                       output.value[i] = <<>>

\* a row with the bit of one column set: that value is empty, another one
\* is not
C15_Witness ==
    /\ output # <<>>
    /\ input.fn = "get_values"
    /\ Cardinality(input.row.null_bit_map) = 1
    /\ \E i, j \in DOMAIN output.value :
          /\ (ValueColumns(input.row.table)[i].column
                  - ValueColumns(input.row.table)[1].column) \in input.row.null_bit_map
          /\ input.row[ValueColumns(input.row.table)[i].field] > 0
          /\ output.value[i] = <<>>
          /\ output.value[j] # <<>>

\* the fields that hold surrogate keys
SurrogateKeyFields ==
    {"sold_date_sk", "ship_date_sk", "item_sk", "customer_sk", "ship_customer_sk",
     "inv_date_sk", "inv_item_sk", "inv_warehouse_sk"}

\* C16: in every row type a surrogate key that is negative is written as the
\* empty string, whatever the null bitmap is.
C16_NegativeKeyWritesEmpty ==
    (output # <<>> /\ input.fn = "get_values") =>
        LET cols == ValueColumns(input.row.table)
        IN  \A i \in DOMAIN cols :
                (cols[i].field \in SurrogateKeyFields /\ input.row[cols[i].field] < 0) =>
                    output.value[i] = <<>>

\* the bytes of values of chars up to U+00FF written with a separator after
\* each value and a newline at the end
RECURSIVE Joined(_, _)
Joined(values, separator) ==
    IF values = <<>> THEN <<10>>
    ELSE Head(values) \o <<separator>> \o Joined(Tail(values), separator)

\* C17: write_to of a row of n >= 1 values that returns Ok has written the
\* values in their order, a separator between two values, one separator
\* after the last value and then a newline: n separators in all, the record
\* ending with separator and newline.
C17_TrailingSeparatorAndNewline ==
    (output # <<>> /\ input.fn = "write_to" /\ output.ok) =>
        LET n == Len(input.values)
            w == output.written
        IN  /\ Len(w) = 2 * n + 1
            /\ \A k \in 1..n : w[2 * k - 1] = "value" /\ w[2 * k] = "separator"
            /\ w[2 * n + 1] = "newline"
            /\ Cardinality({k \in DOMAIN w : w[k] = "separator"}) = n
            /\ output.inner = Joined(input.values, input.separator)

\* two values, the second one empty, written with a separator
C17_Witness ==
    /\ output # <<>>
    /\ input.fn = "write_to"
    /\ output.ok
    /\ Len(input.values) = 2
    /\ input.values[1] # <<>>
    /\ input.values[2] = <<>>
    /\ output.inner = input.values[1] \o <<input.separator, input.separator, 10>>

\* all chars of what the call is given to write
CharsOf(in) ==
    IF in.fn = "write_str" THEN {in.str[i] : i \in DOMAIN in.str}
    ELSE {in.separator}
             \cup UNION {{in.values[k][i] : i \in DOMAIN in.values[k]} : k \in DOMAIN in.values}

\* C18: a string whose chars are all at most U+00FF is written as one byte
\* for each char, the byte being the code point of the char, so that the
\* bytes read as ISO-8859-1 are the string again.
C18_OneByteForEachChar ==
    (output # <<>> /\ input.fn \in {"write_str", "write_to"}
         /\ \A c \in CharsOf(input) : c <= 255) =>
        /\ output.ok
        /\ \A k \in DOMAIN output.inner : output.inner[k] \in 0..255
        /\ input.fn = "write_str" =>
              /\ Len(output.inner) = Len(input.str)
              /\ \A k \in DOMAIN input.str : output.inner[k] = input.str[k]
        /\ input.fn = "write_to" =>
              /\ Len(output.inner) = Len(Joined(input.values, input.separator))
              /\ \A k \in DOMAIN output.inner :
                     output.inner[k] = Joined(input.values, input.separator)[k]

\* a row with U+00FF in a value and U+00E9 as its separator was written
C18_Witness ==
    /\ output # <<>>
    /\ input.fn = "write_to"
    /\ output.ok
    /\ input.separator = 233
    /\ \E k \in DOMAIN input.values : input.values[k] = <<255>>

\* the first of the write! calls of write_to that is given a char above
\* U+00FF, 0 if there is none
FirstBadPiece(values, separator) ==
    LET texts == [k \in 1..(2 * Len(values)) |->
                     IF k % 2 = 1 THEN values[(k + 1) \div 2] ELSE <<separator>>]
        bad == {k \in DOMAIN texts : \E i \in DOMAIN texts[k] : texts[k][i] > 255}
    IN  IF bad = {} THEN 0 ELSE CHOOSE k \in bad : \A j \in bad : k <= j

\* C19: writing a string with a char above U+00FF is an error of the kind
\* InvalidData, and no byte is written for any char of that string: what
\* the writer holds is what the calls before wrote, bytes of chars up to
\* U+00FF only.
C19_OutOfRangeIsAnError ==
    (output # <<>> /\ input.fn \in {"write_str", "write_to"}
         /\ \E c \in CharsOf(input) : c > 255) =>
        /\ ~output.ok
        /\ output.kind = "InvalidData"
        /\ input.fn = "write_str" => output.inner = <<>>
        /\ input.fn = "write_to" =>
              LET bad == FirstBadPiece(input.values, input.separator)
                  whole == Joined(input.values, input.separator)
              IN  /\ Len(output.written) = bad - 1
                  /\ Len(output.inner) < Len(whole)
                  /\ \A k \in DOMAIN output.inner : output.inner[k] = whole[k]
                  /\ \A k \in DOMAIN output.inner : output.inner[k] <= 255

\* write_to failed on its second value after the first value and the
\* separator were written
C19_Witness ==
    /\ output # <<>>
    /\ input.fn = "write_to"
    /\ ~output.ok
    /\ output.kind = "InvalidData"
    /\ input.values = <<<<65>>, <<256>>>>
    /\ output.inner = <<65, input.separator>>

\* the pricing column of a sales table and of its returns table
PricingColumn(t) ==
    CASE t = "store_sales" -> "SsPricing" [] t = "store_returns" -> "SrPricing"
      [] t = "catalog_sales" -> "CsPricing" [] t = "catalog_returns" -> "CrPricing"
      [] t = "web_sales" -> "WsPricing" [] t = "web_returns" -> "WrPricing"

\* the seeds used of the three streams: pricing and *IsReturned of the sales
\* generator, pricing of its returns generator
BudgetedUse(g, t) ==
    <<g.streams[PricingColumn(t)].seeds_used,
      g.streams[IsReturnedColumn(t)].seeds_used,
      g.child_streams[PricingColumn(ChildTable(t))].seeds_used>>

\* C20: in the course of an order the pricing stream and the *IsReturned
\* stream of a sales generator and the pricing stream of its returns
\* generator have never used more than their seeds_per_row: a call draws at
\* most 8, exactly 1 and at most 5 values from them, the last only if the
\* line item is returned, and the seeds_per_row cover an order of the
\* largest line item count all of whose line items are returned.
C20_WithinSeedsPerRow ==
    /\ [](table \in SalesTables =>
            /\ BudgetedUse(gen, table)[1] <= get_seeds_per_row(PricingColumn(table))
            /\ BudgetedUse(gen, table)[2] <= get_seeds_per_row(IsReturnedColumn(table))
            /\ BudgetedUse(gen, table)[3]
                   <= get_seeds_per_row(PricingColumn(ChildTable(table)))
            /\ \A n \in LineItemRange(table) : \A k \in 0..n :
                   /\ 8 * n <= get_seeds_per_row(PricingColumn(table))
                   /\ n <= get_seeds_per_row(IsReturnedColumn(table))
                   /\ 5 * k <= get_seeds_per_row(PricingColumn(ChildTable(table))))
    /\ [][((table \in SalesTables /\ calls' = calls + 1) =>
            LET before == BudgetedUse(gen, table)
                after == BudgetedUse(gen', table)
            IN  /\ after[1] - before[1] \in 1..8
                /\ after[2] - before[2] = 1
                /\ after[3] - before[3] \in
                       (IF Len(result'.rows) = 2 THEN 1..5 ELSE {0}))]_vars

\* the last call of an order with returned line items has been made: the
\* pricing stream has given 8 values for each line item
C20_Witness ==
    /\ table \in SalesTables
    /\ pc = "consume"
    /\ result.should_end_row
    /\ line = order_lines
    /\ BudgetedUse(gen, table)[1] = 8 * order_lines
    /\ BudgetedUse(gen, table)[2] = order_lines
    /\ BudgetedUse(gen, table)[3] >= 10

\* ------------------------------------------------------------------------
\* C21: the sales driver loop terminates.  Run as main.rs runs it, the loop
\* of a sales table reaches its end; no order takes more generator calls
\* than the largest line item count of the table before the result says
\* end of parent; row_number changes only in the block that ends an order,
\* entered on a result with should_end_row, and then by exactly one; and
\* when the loop has ended, num_orders orders have been generated, the last
\* of them with row number num_orders.
\* ------------------------------------------------------------------------
MaxLineItems(t) == IF t = "catalog_sales" THEN 14 ELSE 16

C21_SalesLoopTerminates ==
    /\ (table \in SalesTables) => <>(pc = "done")
    /\ [](table \in SalesTables =>
            /\ line <= MaxLineItems(table)
            /\ calls <= row_number * MaxLineItems(table)
            /\ (pc = "done" => /\ row_number = MaxOrders + 1
                               /\ order_row = MaxOrders
                               /\ calls >= MaxOrders))
    /\ [][(table \in SalesTables /\ row_number' # row_number =>
               /\ row_number' = row_number + 1
               /\ pc = "consume_child"
               /\ result.should_end_row
               /\ gen.remaining_line_items = 0)]_vars
    /\ [][(table \in SalesTables /\ pc = "consume_child" =>
               row_number' = row_number + 1)]_vars

\* a sales loop that has ended after orders of several line items
C21_Witness ==
    /\ table \in SalesTables
    /\ pc = "done"
    /\ row_number = MaxOrders + 1
    /\ calls > 4 * MaxOrders

\* ------------------------------------------------------------------------
\* C22: the sold dates of catalog_sales orders.  budget_through(d) is the sum
\* of the per-day budgets get_row_count_for_date from the start date through
\* d.  As stated: order number r is given the earliest date d, from
\* JULIAN_DATA_START_DATE on, with budget_through(d) >= r, and every date
\* before the date of the last order generated has received exactly its
\* budget of orders.  As the code has it: the earliest date d with
\* budget_through(d) + 1 >= r, so that the start date receives one order
\* more than its budget and every later date exactly its budget.
\* ------------------------------------------------------------------------
RECURSIVE budget_through(_)
budget_through(d) ==
    IF d < JULIAN_DATA_START_DATE THEN 0
    ELSE budget_through(d - 1) + get_row_count_for_date(d)

\* the dates an order of the table can be given in the model's calendar
SoldDates == JULIAN_DATA_START_DATE..(JULIAN_DATA_START_DATE + 3 * CatalogSalesRows)

\* d is the earliest date whose accumulated budget, plus head_start, reaches r
EarliestDate(d, r, head_start) ==
    /\ d \in SoldDates
    /\ budget_through(d) + head_start >= r
    /\ \A e \in SoldDates : e < d => budget_through(e) + head_start < r

OrdersOn(d) == {r \in DOMAIN output.cs_sold_date_sk : output.cs_sold_date_sk[r] = d}

OrdersGenerated == input.fn = "generate_order_info" /\ output # <<>>

C22_DateWhereBudgetReachesRow ==
    OrdersGenerated =>
        /\ \A r \in DOMAIN output.cs_sold_date_sk :
               EarliestDate(output.cs_sold_date_sk[r], r, 0)
        /\ input.first_row = 1 =>
               \A d \in SoldDates :
                   d < output.cursor.julian_date =>
                       Cardinality(OrdersOn(d)) = get_row_count_for_date(d)

C22_DateWhereBudgetPlusOneReachesRow ==
    OrdersGenerated =>
        /\ \A r \in DOMAIN output.cs_sold_date_sk :
               EarliestDate(output.cs_sold_date_sk[r], r, 1)
        /\ input.first_row = 1 =>
               \A d \in SoldDates :
                   d < output.cursor.julian_date =>
                       Cardinality(OrdersOn(d)) =
                           get_row_count_for_date(d)
                               + (IF d = JULIAN_DATA_START_DATE THEN 1 ELSE 0)

\* orders 1.. have been generated past a date without budget, after the
\* start date has received more than one order
C22_Witness ==
    /\ OrdersGenerated
    /\ input.first_row = 1
    /\ Cardinality(OrdersOn(JULIAN_DATA_START_DATE)) > 1
    /\ \E d \in SoldDates :
          /\ d < output.cursor.julian_date
          /\ get_row_count_for_date(d) = 0

\* ------------------------------------------------------------------------
\* C23: the date cursor after the first call of the catalog_sales
\* generator, made for row number 1 (which moves the cursor no further).
\* As stated: julian_date = JULIAN_DATA_START_DATE and next_date_index =
\* get_row_count_for_date(JULIAN_DATA_START_DATE).  As the code has it:
\* next_date_index is that row count plus one.
\* ------------------------------------------------------------------------
FirstCatalogSalesCall ==
    /\ table = "catalog_sales"
    /\ calls = 1
    /\ arg = 1
    /\ skip_calls = -1

C23_CursorStartsAtBudget ==
    FirstCatalogSalesCall =>
        /\ gen.julian_date = JULIAN_DATA_START_DATE
        /\ gen.next_date_index = get_row_count_for_date(JULIAN_DATA_START_DATE)

C23_CursorStartsAtBudgetPlusOne ==
    FirstCatalogSalesCall =>
        /\ gen.julian_date = JULIAN_DATA_START_DATE
        /\ gen.next_date_index = get_row_count_for_date(JULIAN_DATA_START_DATE) + 1

C23_Witness ==
    /\ FirstCatalogSalesCall
    /\ gen.item_permutation # <<>>
    /\ get_row_count_for_date(JULIAN_DATA_START_DATE) > 0
    /\ result.rows[1].sold_date_sk = JULIAN_DATA_START_DATE

\* ------------------------------------------------------------------------
\* C24: item keys are chosen without replacement within an order.  The
\* line items generated so far for the current order of a sales table have
\* selected pairwise different indexes of the item permutation, each within
\* 1..item_count, and pairwise different entries of it, also when the index
\* has wrapped from item_count back to 1 inside the order.
\* ------------------------------------------------------------------------
C24_ItemsWithoutReplacement ==
    (table \in SalesTables /\ calls > 0) =>
        /\ Len(order_items) = line
        /\ \A i \in DOMAIN order_items : order_items[i] \in 1..item_count
        /\ \A i, j \in DOMAIN order_items :
               i # j =>
                   /\ order_items[i] # order_items[j]
                   /\ get_permutation_entry(gen.item_permutation, order_items[i])
                          # get_permutation_entry(gen.item_permutation, order_items[j])

\* an order whose item index has wrapped from item_count to 1
C24_Witness ==
    /\ table \in SalesTables
    /\ \E i \in DOMAIN order_items :
          /\ i + 1 \in DOMAIN order_items
          /\ order_items[i] = item_count
          /\ order_items[i + 1] = 1
    /\ Len(order_items) > 2

\* ------------------------------------------------------------------------
\* C25: the gift roll of a new catalog_sales order.  The roll takes the
\* values 0..99, all equally likely.  As stated: a ship customer of its own
\* is drawn for 10 of these 100 values (10%), and for every other value the
\* ship customer is the bill customer.  As the code has it: a ship customer
\* is drawn exactly for the rolls 0..GIFT_PERCENTAGE, which are 11 of the
\* 100 values (11%), and for every other value the ship customer is the
\* bill customer.
\* ------------------------------------------------------------------------
GiftRolled == input.fn = "cs_ship_customer" /\ output # <<>>

ClosedDateGenerated == input.fn = "store_closed_date_id" /\ output # <<>>

C26_ClosedForThirtyPercent ==
    ClosedDateGenerated =>
        /\ output.closed_date_id \in {-1, JULIAN_DATE_MINIMUM + input.days_open}
        /\ output.percentage = 100 => output.closed * 100 = 30 * (100 - 1 + 1)

C26_ClosedForTwentyNineOfHundred ==
    ClosedDateGenerated =>
        /\ output.percentage < STORE_CLOSED_PCT =>
               output.closed_date_id = JULIAN_DATE_MINIMUM + input.days_open
        /\ output.percentage >= STORE_CLOSED_PCT => output.closed_date_id = -1
        /\ output.percentage = 100 => output.closed = STORE_CLOSED_PCT - 1

\* every percentage has been taken: some gave a closed date, the last one -1
C26_Witness ==
    /\ ClosedDateGenerated
    /\ output.percentage = 100
    /\ output.closed > 0
    /\ output.closed_date_id = -1

\* ------------------------------------------------------------------------
\* C27: the inventory row number as a mixed-radix integer.  For every row
\* number of 1..inventory row count the decoded item lies in 1..item id
\* count, the warehouse in 1..warehouse row count, the date is
\* JULIAN_DATE_MINIMUM + 7 * week for a week >= 0 and does not exceed the
\* maximum date; row_number - 1 is (week * warehouses + warehouse - 1) *
\* items + item - 1, that is item cycles fastest and week slowest; and the
\* rows generated so far have decoded to as many different triples as
\* there are rows.
\* ------------------------------------------------------------------------
InventoryGenerated == input.fn = "inventory" /\ output # <<>>

WeekOf(inv_date_sk) == (inv_date_sk - JULIAN_DATE_MINIMUM) \div 7

C27_InventoryMixedRadix ==
    InventoryGenerated =>
        LET items == get_id_count(input.item_rows)
            warehouses == input.warehouse_rows
            row == output.row
        IN  /\ output.row_number
                   <= scale_inventory(input.item_rows, input.warehouse_rows,
                                      JULIAN_DATE_MINIMUM, input.date_maximum)
            /\ row.inv_item_sk_unique \in 1..items
            /\ row.inv_warehouse_sk \in 1..warehouses
            /\ row.inv_date_sk = JULIAN_DATE_MINIMUM + 7 * WeekOf(row.inv_date_sk)
            /\ row.inv_date_sk >= JULIAN_DATE_MINIMUM
            /\ row.inv_date_sk <= input.date_maximum
            /\ output.row_number - 1 =
                   (WeekOf(row.inv_date_sk) * warehouses + (row.inv_warehouse_sk - 1)) * items
                       + (row.inv_item_sk_unique - 1)
            /\ Cardinality(output.seen) = output.row_number

\* the last row of a scaling with several items, warehouses and weeks
C27_Witness ==
    /\ InventoryGenerated
    /\ get_id_count(input.item_rows) > 1
    /\ input.warehouse_rows > 1
    /\ WeekOf(output.row.inv_date_sk) > 0
    /\ output.row.inv_date_sk + 7 > input.date_maximum
    /\ output.row.inv_item_sk_unique = get_id_count(input.item_rows)
    /\ output.row.inv_warehouse_sk = input.warehouse_rows
    /\ Cardinality(output.seen) > 2 * get_id_count(input.item_rows)

\* ------------------------------------------------------------------------
\* C28: generate_uniform_random_int(lo, hi, stream).  The call takes exactly
\* one step of the stream.  As stated: the result lies in lo..hi for every
\* value the stream can produce.  As the code has it, with the remainder of
\* Rust's % on i32: for a stream output below 2^31 the result lies in lo..hi
\* and result - lo is congruent to the output modulo hi - lo + 1; for an
\* output with bit 31 set the cast to i32 is negative, and the result lies
\* in lo - (hi - lo)..lo, again congruent to the cast value.
\* ------------------------------------------------------------------------
UniformIntDrawn == input.fn = "generate_uniform_random_int" /\ output # <<>>

OneStepTaken ==
    /\ output.stream.steps = input.stream.steps + 1
    /\ output.stream.seeds_used = input.stream.seeds_used + 1
    /\ output.stream.seeds_per_row = input.stream.seeds_per_row

WeightedIndexDrawn == input.fn = "generate_weighted_random_index" /\ output # <<>>

cumulative_weight(i) == total_weight(SubSeq(input.weights, 1, i))

C29_WeightedIndexFirstMatch ==
    WeightedIndexDrawn =>
        LET total == total_weight(input.weights)
            n == Len(input.weights)
        IN  IF total = 0
            THEN "panic" \in DOMAIN output
            ELSE /\ "panic" \notin DOMAIN output
                 /\ OneStepTaken
                 /\ output.random_value =
                        uniform_random_int(1, total, output.stream,
                                           halves_as_i32(input.next)).value
                 /\ halves_as_i32(input.next) >= 0 => output.random_value \in 1..total
                 /\ output.value \in 0..(n - 1)
                 /\ output.random_value <= cumulative_weight(output.value + 1)
                 /\ \A i \in 1..output.value : cumulative_weight(i) < output.random_value
                 /\ \A i \in 1..n :
                        (/\ output.random_value = cumulative_weight(i)
                         /\ input.weights[i] > 0) => output.value = i - 1

\* the draw equals the cumulative weight of the second of the test's four
\* weights, and the second entry is the one returned
C29_Witness ==
    /\ WeightedIndexDrawn
    /\ input.weights = <<10, 20, 30, 40>>
    /\ output.random_value = 30
    /\ output.value = 1
    /\ input.stream.seeds_used > 0

\* ------------------------------------------------------------------------
\* C30: for every generator column of a table, get_random_number_stream
\* returns the stream constructed for that column: the index
\* global_column_number - base_global_column_number lies within the stream
\* vector, and the stream stored there was created from the column's global
\* column number and seeds per row (its seed is the column's initial seed
\* advanced by the stream's steps).  Looking a stream up and drawing from
\* it never creates or removes a stream: the number of streams stays the
\* table's number of generator columns.
\* ------------------------------------------------------------------------
RandomNumberStreamsCreated == input.fn = "get_random_number_stream" /\ output # <<>>

C30_StreamOfColumn ==
    RandomNumberStreamsCreated =>
        LET generator == output.generator
            streams == generator.random_number_streams
            columns == all_variants(input.table)
        IN  /\ Len(streams) = Len(columns)
            /\ Len(output.created_from) = Len(columns)
            /\ \A k \in 1..Len(columns) :
                  LET column == columns[k]
                      index == get_global_column_number(column)
                                   - generator.base_global_column_number
                  IN  /\ index \in 0..(Len(streams) - 1)
                      /\ output.created_from[index + 1] =
                             [global_column_number |-> get_global_column_number(column),
                              seeds_per_row |-> get_seeds_per_row(column)]
                      /\ streams[index + 1].seeds_per_row = get_seeds_per_row(column)
                      /\ streams[index + 1].seed =
                             SeedAfter(InitialSeed(base, get_global_column_number(column)),
                                       streams[index + 1].steps)
            /\ output.returned # <<>> =>
                  /\ "panic" \notin DOMAIN output.returned
                  /\ output.returned.index =
                         get_global_column_number(output.returned.column)
                             - generator.base_global_column_number
                  /\ output.created_from[output.returned.index + 1].global_column_number =
                         get_global_column_number(output.returned.column)

\* the last column of store_sales has been looked up after a draw from the
\* stream of another column
C30_Witness ==
    /\ RandomNumberStreamsCreated
    /\ input.table = "store_sales"
    /\ output.lookups = MaxLookups
    /\ output.returned # <<>>
    /\ output.returned.column = "SsPermutation"
    /\ output.returned.index = 25
    /\ \E i \in 1..25 : output.generator.random_number_streams[i].steps > 0

====
